---------------------------- MODULE Spec2Model ----------------------------
(***************************************************************************)
(* A model of the morph-rs dictionary compiler (Dictionary::from_opencorpora*)
(* with Links::collect_lemmas) and of the lookup engine of MorphAnalyzer    *)
(* (parse, normalize, inflect_inizio, declension).                          *)
(*                                                                          *)
(* Encoding.  A string is the sequence of its code points, a Grammem is     *)
(* its rank in the derived order of the enum (100 * category + variant), a  *)
(* Tag is a sequence of grammemes, a Form is <<class, kind, id>> and every  *)
(* derived Ord of the program is the lexicographic order of sequences of    *)
(* numbers.  Indices into the tables are 0-based, as in the program.        *)
(***************************************************************************)
EXTENDS Integers, Sequences, FiniteSets, TLC

VARIABLES
    lemmata,            \* DictionaryOpenCorpora.lemmata.lemmas : the source lemmas
    links,              \* DictionaryOpenCorpora.links.links    : the source links
    pc,                 \* "source" | "collected" | "ready" | "answered" | "failed"
    link_connotation,   \* the HashMap returned by Links::collect_lemmas
    dict,               \* the compiled artifact (Dictionary + the fst::Map)
    err,                \* the error of the last operation, "" when it succeeded
    query,              \* the last query: <<operation, word>>
    result              \* what the last query returned

vars == <<lemmata, links, pc, link_connotation, dict, err, query, result>>

-----------------------------------------------------------------------------
(* Bounds of the model.                                                    *)

MaxLinks == 2           \* links of a source of SpecLinks
MaxLinkLemmas == 3      \* lemmas of a source of SpecLinks
MaxLemmas == 2          \* lemmas of a source of Spec
MaxForms == 2           \* forms of a lemma of a source of Spec
MaxLemmaLinks == 1      \* links of a source of Spec
MaxWords == 2           \* strings of a list of SpecLcs
MaxWordLen == 3         \* letters of a string of SpecLcs
MaxVangaLemmas == 7     \* lemmas of a source of SpecVanga
MaxCandidates == 3      \* candidates of a list of SpecLcs
MaxReaders == 2         \* threads that share the analyzer in SpecReaders
MaxCalls == 2           \* calls a caller makes one after another in SpecFuture

-----------------------------------------------------------------------------
(* Orders, sorting and searching (the std operations the program calls).   *)

\* Ord of slices, Vec, SmallVec and String: -1, 0 or 1.
RECURSIVE CmpSeq(_, _)
CmpSeq(a, b) ==
    IF a = <<>> THEN (IF b = <<>> THEN 0 ELSE -1)
    ELSE IF b = <<>> THEN 1
    ELSE IF Head(a) < Head(b) THEN -1
    ELSE IF Head(a) > Head(b) THEN 1
    ELSE CmpSeq(Tail(a), Tail(b))

\* The stable sorting permutation of a sequence of keys: perm[i] is the place
\* in keys of the i-th smallest key.
RECURSIVE SortIdx(_)
SortIdx(keys) ==
    IF keys = <<>> THEN <<>>
    ELSE LET n == Len(keys)
             t == SortIdx(SubSeq(keys, 1, n - 1))
             k == Cardinality({j \in 1..(n - 1) : CmpSeq(keys[t[j]], keys[n]) <= 0})
         IN  SubSeq(t, 1, k) \o <<n>> \o SubSeq(t, k + 1, n - 1)

\* slice::sort() of a vector whose derived Ord is the order of Key(element).
SortBy(s, Key(_)) ==
    LET perm == SortIdx([i \in 1..Len(s) |-> Key(s[i])])
    IN  [i \in 1..Len(s) |-> s[perm[i]]]

\* slice::binary_search over the keys of a sorted vector: the 0-based index of
\* a match, -1 for Err.  Among equal elements the std algorithm (probe the
\* middle of [left, right), stop at the first hit) decides which is returned.
RECURSIVE BSearchFrom(_, _, _, _)
BSearchFrom(keys, x, left, right) ==
    IF left >= right THEN -1
    ELSE LET mid == left + ((right - left) \div 2)
             c == CmpSeq(keys[mid + 1], x)
         IN  IF c = 0 THEN mid
             ELSE IF c < 0 THEN BSearchFrom(keys, x, mid + 1, right)
             ELSE BSearchFrom(keys, x, left, mid)

BinarySearch(keys, x) == BSearchFrom(keys, x, 0, Len(keys))

\* HashMap / BTreeMap as functions.
EmptyMap == [x \in {} |-> <<>>]
MapEntry(map, k) == IF k \in DOMAIN map THEN map[k] ELSE <<>>
MapPut(map, k, v) == [x \in (DOMAIN map) \cup {k} |-> IF x = k THEN v ELSE map[x]]

SeqContains(vec, x) == \E i \in 1..Len(vec) : vec[i] = x
SeqToSet(vec) == {vec[i] : i \in 1..Len(vec)}

\* All sequences over S of length at most n.
SeqsUpTo(S, n) == UNION {[1..k -> S] : k \in 0..n}

-----------------------------------------------------------------------------
(* Links::collect_lemmas.                                                  *)

DOUBLE_FROM == {6, 22}
EXCLUDED_LINKS == {7, 8, 9, 11, 16, 18, 21, 23, 27}

\* A push that does not look for the element first.
PushAlways(vec, x) == Append(vec, x)

\* if !variations.contains(&x) { variations.push(x) }
PushUnique(vec, x) == IF SeqContains(vec, x) THEN vec ELSE Append(vec, x)

\* links.iter().find(|link| link.variant == lemma_id): the place of the first
\* link of the whole list whose `to` is lemma_id, 0 when there is none.
FindReal(all, lemma_id) ==
    LET S == {i \in 1..Len(all) : all[i].variant = lemma_id}
    IN  IF S = {} THEN 0 ELSE CHOOSE i \in S : \A j \in S : i <= j

\* The body of the loop 'links for one link.
ResolveLink(conn, link, all) ==
    IF link.type_id \in EXCLUDED_LINKS THEN conn
    ELSE IF link.type_id \in DOUBLE_FROM /\ FindReal(all, link.lemma_id) # 0
    THEN LET real == all[FindReal(all, link.lemma_id)].lemma_id
         IN  MapPut(conn, real,
                    PushUnique(PushUnique(MapEntry(conn, real), link.lemma_id),
                               link.variant))
    ELSE MapPut(conn, link.lemma_id,
                PushUnique(MapEntry(conn, link.lemma_id), link.variant))

RECURSIVE CollectFrom(_, _, _)
CollectFrom(conn, all, i) ==
    IF i > Len(all) THEN conn
    ELSE CollectFrom(ResolveLink(conn, all[i], all), all, i + 1)

collect_lemmas(ls) == CollectFrom(EmptyMap, ls, 1)

-----------------------------------------------------------------------------
(* Characters, grammemes and forms.                                        *)

Ye == 1077              \* 'е'
Yo == 1105              \* 'ё'

\* char::to_lowercase on the letters the model uses: Latin and Cyrillic
\* capitals ('Ё' is 1025, 'А'..'Я' are 1040..1071, 'A'..'Z' are 65..90).
ToLowerChar(c) ==
    IF c = 1025 THEN Yo
    ELSE IF (c >= 1040 /\ c <= 1071) \/ (c >= 65 /\ c <= 90) THEN c + 32
    ELSE c

\* str::to_lowercase
to_lowercase(w) == [i \in 1..Len(w) |-> ToLowerChar(w[i])]

\* k.contains('ё') and k.replace('ё', "е")
ContainsYo(w) == \E i \in 1..Len(w) : w[i] = Yo
ReplaceYo(w) == [i \in 1..Len(w) |-> IF w[i] = Yo THEN Ye ELSE w[i]]

\* Grammem: 100 * (place of the category in enum Grammem) + (place of the variant).
Noun == 0
Nominativus == 301
Genetivus == 302

\* Form::Word(FWord::Normal(id) | Inizio(id) | Different(id)) is <<0, kind, id>>.
FNormal == 0
FInizio == 1
FDifferent == 2
FormWord(kind, id) == <<0, kind, id>>
is_normal(form) == form[2] = FNormal
is_inizio(form) == form[2] = FInizio
FormId(form) == form[3]

\* The derived Ord of Parse: (form, tag, normal_form, lemma_row_id).
ParseKey(p) == p.form \o <<p.tag, p.normal_form, p.lemma_row_id>>

\* The Ord of Vec<Parse>: every ParseKey has the same length, so the order of
\* the vectors is the order of the concatenated keys.
RECURSIVE ParsesKey(_)
ParsesKey(ps) == IF ps = <<>> THEN <<>> ELSE ParseKey(Head(ps)) \o ParsesKey(Tail(ps))

Identity(x) == x
GrammemKey(g) == <<g>>

\* tag.sort()
SortTag(tag) == SortBy(tag, GrammemKey)

\* An enumeration of a set (the iteration of a HashSet, before it is sorted).
RECURSIVE SetToSeq(_)
SetToSeq(S) ==
    IF S = {} THEN <<>>
    ELSE LET x == CHOOSE y \in S : TRUE IN <<x>> \o SetToSeq(S \ {x})

-----------------------------------------------------------------------------
(* LemmaDict::collect_word_tags and to_word_tags: the intermediate parses  *)
(* one lemma emits, in the order they are pushed.                          *)

NoNormalization == [some |-> FALSE, text |-> <<>>]
SomeNormalization(text) == [some |-> TRUE, text |-> text]

\* LemmaDict::first_tags is Err(LostFirstGrammemes) when <l> holds no <g>.
HasFirstTags(lemma) == lemma.normal_form.gram # <<>>
first_tags(lemma) == lemma.normal_form.gram

to_word_tags(grammemes, word, normal_form, form, lemma_row) ==
    [word |-> to_lowercase(word), tag |-> grammemes, form |-> form,
     normal_form |-> normal_form, opcorp_lemma |-> lemma_row]

\* collect_word_tags that gives every form the label of the first form.
collect_word_tags_first(lemma, lemma_id, first, normalization, lemma_row) ==
    LET inizio_grammemes == first_tags(lemma)
        nf == IF normalization.some THEN normalization.text ELSE lemma.normal_form.text
    IN  IF lemma.forms = <<>>
        THEN << to_word_tags(inizio_grammemes, lemma.normal_form.text, nf,
                             FormWord(first, lemma_id), lemma_row) >>
        ELSE [i \in 1..Len(lemma.forms) |->
                to_word_tags(lemma.forms[i].gram \o inizio_grammemes,
                             lemma.forms[i].text, nf,
                             FormWord(first, lemma_id),
                             lemma_row)]

collect_word_tags(lemma, lemma_id, first, normalization, lemma_row) ==
    LET inizio_grammemes == first_tags(lemma)
        nf == IF normalization.some THEN normalization.text ELSE lemma.normal_form.text
    IN  IF lemma.forms = <<>>
        THEN << to_word_tags(inizio_grammemes, lemma.normal_form.text, nf,
                             FormWord(first, lemma_id), lemma_row) >>
        ELSE [i \in 1..Len(lemma.forms) |->
                to_word_tags(lemma.forms[i].gram \o inizio_grammemes,
                             lemma.forms[i].text, nf,
                             IF i = 1 THEN FormWord(first, lemma_id)
                                      ELSE FormWord(FDifferent, lemma_id),
                             lemma_row)]

-----------------------------------------------------------------------------
(* Dictionary::from_opencorpora: the clusters.                             *)

\* lemmata_map: a later lemma with the same id replaces an earlier one.
LemmataMap(ls) ==
    [id \in {ls[i].id : i \in 1..Len(ls)} |->
        ls[CHOOSE i \in 1..Len(ls) :
              ls[i].id = id /\ \A j \in (i + 1)..Len(ls) : ls[j].id # id]]

\* lemma_row: the key and its variants, sorted.
LemmaRow(lemma_id, variants) == SortBy(<<lemma_id>> \o variants, GrammemKey)

\* All enumerations of a finite set: the orders a HashMap may iterate in.
Perms(S) ==
    {s \in [1..Cardinality(S) -> S] : \A i, j \in 1..Cardinality(S) : s[i] = s[j] => i = j}

\* The error that aborts the body of the loop over link_connotation for one
\* cluster, "" when the body reaches collect_vangas.
RECURSIVE VariantsErr(_, _, _)
VariantsErr(lmap, variants, i) ==
    IF i > Len(variants) THEN ""
    ELSE IF variants[i] \notin DOMAIN lmap THEN "LostLemmaId"
    ELSE IF ~HasFirstTags(lmap[variants[i]]) THEN "LostFirstGrammemes"
    ELSE VariantsErr(lmap, variants, i + 1)

ClusterErr(lmap, lemma_id, variants) ==
    IF lemma_id \notin DOMAIN lmap THEN "LostLemmaId"
    ELSE IF ~HasFirstTags(lmap[lemma_id]) THEN "LostFirstGrammemes"
    ELSE VariantsErr(lmap, variants, 1)

\* What the variants of a cluster push to word_map, in order.
RECURSIVE VariantsEmitted(_, _, _, _, _)
VariantsEmitted(lmap, variants, i, normal_form, lemma_row) ==
    IF i > Len(variants) THEN <<>>
    ELSE collect_word_tags(lmap[variants[i]], variants[i], FInizio,
                           SomeNormalization(normal_form), lemma_row)
         \o VariantsEmitted(lmap, variants, i + 1, normal_form, lemma_row)

\* What one cluster pushes to word_map: the key lemma as Normal, then every
\* variant as Inizio with the key's normal form.
ClusterEmitted(lmap, lemma_id, variants) ==
    LET lemma_row == LemmaRow(lemma_id, variants)
        normal == lmap[lemma_id]
    IN  collect_word_tags(normal, lemma_id, FNormal, NoNormalization, lemma_row)
        \o VariantsEmitted(lmap, variants, 1, normal.normal_form.text, lemma_row)

\* The lemmas a set of clusters removes from all_lemmas.
Clustered(conn) == UNION {{k} \cup SeqToSet(conn[k]) : k \in DOMAIN conn}

\* for lost_id in all_lemmas: the BTreeSet is walked in increasing order.
LostIds(lmap, conn) == SortBy(SetToSeq((DOMAIN lmap) \ Clustered(conn)), GrammemKey)

\* The clusters in the order they are processed: those of link_connotation in
\* the order the HashMap yields them, then the lost lemmas, each alone.
Clusters(lmap, conn, order) ==
    [i \in 1..Len(order) |-> [lemma_id |-> order[i], variants |-> conn[order[i]]]]
    \o [i \in 1..Len(LostIds(lmap, conn)) |->
          [lemma_id |-> LostIds(lmap, conn)[i], variants |-> <<>>]]

-----------------------------------------------------------------------------
(* morph::vanga: the paradigms collected while the clusters are processed. *)

\* str::len: the length in bytes of the UTF-8 encoding.
RECURSIVE ByteLen(_)
ByteLen(w) ==
    IF w = <<>> THEN 0
    ELSE (IF Head(w) < 128 THEN 1 ELSE IF Head(w) < 2048 THEN 2 ELSE 3) + ByteLen(Tail(w))

\* The places where pat occurs in w, and str::contains.
Occurrences(w, pat) ==
    {i \in 1..(Len(w) - Len(pat) + 1) : SubSeq(w, i, i + Len(pat) - 1) = pat}
StrContains(w, pat) == pat = <<>> \/ Occurrences(w, pat) # {}

\* The inner loop of longest_common_substring over data[j..] for one pushed
\* character: <<sub_string, best_match>> when it ends or breaks.
RECURSIVE LcsWords(_, _, _, _)
LcsWords(data, j, sub_string, best_match) ==
    IF j > Len(data) THEN <<sub_string, best_match>>
    ELSE IF StrContains(data[j], sub_string)
    THEN LcsWords(data, j + 1, sub_string,
                  IF ByteLen(sub_string) > ByteLen(best_match) THEN sub_string
                                                               ELSE best_match)
    ELSE <<  <<>>,
             IF ByteLen(sub_string) = ByteLen(best_match) /\ StrContains(sub_string, best_match)
             THEN SubSeq(best_match, 1, Len(best_match) - 1)
             ELSE best_match >>

\* The outer loop over the characters of data[0].
RECURSIVE LcsChars(_, _, _, _)
LcsChars(data, i, sub_string, best_match) ==
    IF i > Len(data[1]) THEN best_match
    ELSE LET r == LcsWords(data, 2, Append(sub_string, data[1][i]), best_match)
         IN  LcsChars(data, i + 1, r[1], r[2])

longest_common_substring(data) ==
    IF Len(data) = 0 THEN <<>>
    ELSE IF Len(data) = 1 THEN data[1]
    ELSE LcsChars(data, 1, <<>>, <<>>)

\* Form::Vanga(FVanga::Normal | Inizio | Different)
FormVanga(kind) == <<1, kind, 0>>

\* The words one lemma pushes to vangas_words in collect_word_tags.
LemmaVangasWords(lemma) ==
    <<ReplaceYo(lemma.normal_form.text)>>
    \o [i \in 1..Len(lemma.forms) |-> ReplaceYo(lemma.forms[i].text)]

\* LemmaVanga::push_normal (first = FNormal) and update_form (first = FInizio).
LemmaVangaVariants(lemma, first) ==
    IF lemma.forms = <<>>
    THEN << [word |-> lemma.normal_form.text, form |-> first, tag |-> first_tags(lemma)] >>
    ELSE [i \in 1..Len(lemma.forms) |->
            [word |-> lemma.forms[i].text,
             form |-> IF i = 1 THEN first ELSE FDifferent,
             tag |-> lemma.forms[i].gram \o first_tags(lemma)]]

RECURSIVE ClusterVangasWordsFrom(_, _, _)
ClusterVangasWordsFrom(lmap, ids, i) ==
    IF i > Len(ids) THEN <<>>
    ELSE LemmaVangasWords(lmap[ids[i]]) \o ClusterVangasWordsFrom(lmap, ids, i + 1)

RECURSIVE ClusterVangaVariantsFrom(_, _, _)
ClusterVangaVariantsFrom(lmap, ids, i) ==
    IF i > Len(ids) THEN <<>>
    ELSE LemmaVangaVariants(lmap[ids[i]], IF i = 1 THEN FNormal ELSE FInizio)
         \o ClusterVangaVariantsFrom(lmap, ids, i + 1)

\* Grammem::Other(_) is the last category of the enum.
\* Other::Name, a grammeme of the category Other.
Name == 1201
OtherBase == 1200
IsOther(g) == g >= OtherBase

\* UNPRODUCTIVE: NUMR, NPRO, PRED, PREP, CONJ, PRCL, INTJ and Other::Pronominal.
UNPRODUCTIVE == {9, 11, 12, 13, 14, 15, 16, 1210}

\* VangaItemIntermediate::parse_vanga_item: err for Err(Stem), item = <<>> for
\* Ok(None) and <<the item>> for Ok(Some(_)).  split_once cuts at the first
\* occurrence of the stem.
parse_vanga_item(stem, to_vanga_item, tag, form) ==
    LET word == ReplaceYo(to_vanga_item)
        occ == Occurrences(word, stem)
        at == CHOOSE i \in occ : \A j \in occ : i <= j
        postfix == SubSeq(word, at + Len(stem), Len(word))
    IN  IF occ = {} THEN [err |-> TRUE, item |-> <<>>]
        ELSE IF Len(postfix) > 0 /\ Len(postfix) <= 5
        THEN [err |-> FALSE,
              item |-> << [postfix |-> postfix, form |-> form,
                           tag |-> <<SortTag(SelectSeq(tag, LAMBDA g : ~IsOther(g)))>>] >>]
        ELSE [err |-> FALSE, item |-> <<>>]

\* The loop of collect_vangas over the variants that have a tag.
RECURSIVE VangaItems(_, _, _)
VangaItems(stem, variants, i) ==
    IF i > Len(variants) THEN [err |-> FALSE, item |-> <<>>]
    ELSE LET rest == VangaItems(stem, variants, i + 1)
             it == parse_vanga_item(stem, variants[i].word, variants[i].tag,
                                    FormVanga(variants[i].form))
         IN  IF variants[i].tag = <<>> THEN rest
             ELSE IF it.err THEN it
             ELSE IF rest.err THEN rest
             ELSE [err |-> FALSE, item |-> it.item \o rest.item]

\* LemmaVanga::collect_vangas for one cluster: the items it counts (none when it
\* counts nothing), or err for Err(Stem).
collect_vangas(lmap, lemma_id, variants) ==
    LET ids == <<lemma_id>> \o variants
        words == ClusterVangasWordsFrom(lmap, ids, 1)
        vvs == ClusterVangaVariantsFrom(lmap, ids, 1)
        stem == to_lowercase(longest_common_substring(words))
    IN  IF Len(stem) < 3 THEN [err |-> FALSE, item |-> <<>>]
        ELSE IF \E g \in SeqToSet(vvs[1].tag) : g \in UNPRODUCTIVE
        THEN [err |-> FALSE, item |-> <<>>]
        ELSE VangaItems(stem, vvs, 1)

-----------------------------------------------------------------------------
(* Dictionary::from_opencorpora: the tables.                               *)

\* The first `?` that returns while the clusters are processed, "" when none.
RECURSIVE ClustersErr(_, _, _)
ClustersErr(lmap, cl, i) ==
    IF i > Len(cl) THEN ""
    ELSE LET e == ClusterErr(lmap, cl[i].lemma_id, cl[i].variants)
         IN  IF e # "" THEN e
             ELSE IF collect_vangas(lmap, cl[i].lemma_id, cl[i].variants).err THEN "Stem"
             ELSE ClustersErr(lmap, cl, i + 1)

\* Everything pushed to word_map, in the order of the pushes.
RECURSIVE AllEmitted(_, _, _)
AllEmitted(lmap, cl, i) ==
    IF i > Len(cl) THEN <<>>
    ELSE ClusterEmitted(lmap, cl[i].lemma_id, cl[i].variants) \o AllEmitted(lmap, cl, i + 1)

\* tags: the HashSet of the tags as pushed, each sorted, then the Vec sorted.
TagsTable(emitted) ==
    LET pushed == SetToSeq({emitted[i].tag : i \in 1..Len(emitted)})
    IN  SortBy([i \in 1..Len(pushed) |-> SortTag(pushed[i])], Identity)

\* lemmas: one push per cluster, then sorted.
LemmasTableAsPushed(lmap, cl) ==
    [i \in 1..Len(cl) |-> lmap[cl[i].lemma_id].normal_form.text]
LemmasTable(lmap, cl) ==
    SortBy([i \in 1..Len(cl) |-> lmap[cl[i].lemma_id].normal_form.text], Identity)

\* lemmas_rows: one push per cluster, then sorted.
RowsTable(cl) ==
    SortBy([i \in 1..Len(cl) |-> LemmaRow(cl[i].lemma_id, cl[i].variants)], Identity)

\* ParseIntermediate -> Parse: the binary searches in the three tables.
\* ToParse with the indices counted from one.
ToParseFromOne(pi, tags, lemmas, rows) ==
    [form |-> pi.form,
     tag |-> BinarySearch(tags, SortTag(pi.tag)) + 1,
     normal_form |-> BinarySearch(lemmas, pi.normal_form) + 1,
     lemma_row_id |-> BinarySearch(rows, pi.opcorp_lemma) + 1]
ToParse(pi, tags, lemmas, rows) ==
    [form |-> pi.form,
     tag |-> BinarySearch(tags, SortTag(pi.tag)),
     normal_form |-> BinarySearch(lemmas, pi.normal_form),
     lemma_row_id |-> BinarySearch(rows, pi.opcorp_lemma)]

\* The keys of word_map in the order the BTreeMap is walked.
WordKeys(emitted) == SortBy(SetToSeq({emitted[i].word : i \in 1..Len(emitted)}), Identity)

\* `parses` of the loop over word_map for the key k, after parses.sort().
KeyParses(emitted, k, tags, lemmas, rows) ==
    LET v == SelectSeq(emitted, LAMBDA pi : pi.word = k)
    IN  SortBy([i \in 1..Len(v) |-> ToParse(v[i], tags, lemmas, rows)], ParseKey)

\* The inserts into word_parses: the key itself, then its spelling with
\* every 'ё' replaced by 'е'.  A later insert replaces an earlier one.
RECURSIVE InsertWords(_, _, _, _, _, _, _)
InsertWords(wp, keys, i, emitted, tags, lemmas, rows) ==
    IF i > Len(keys) THEN wp
    ELSE LET k == keys[i]
             parses == KeyParses(emitted, k, tags, lemmas, rows)
             own == MapPut(wp, k, parses)
             both == IF ContainsYo(k) THEN MapPut(own, ReplaceYo(k), parses) ELSE own
         IN  InsertWords(both, keys, i + 1, emitted, tags, lemmas, rows)

\* vec_parse: one push per key of word_map, then sorted.
VecParse(emitted, tags, lemmas, rows) ==
    LET keys == WordKeys(emitted)
    IN  SortBy([i \in 1..Len(keys) |-> KeyParses(emitted, keys[i], tags, lemmas, rows)],
               ParsesKey)

\* The value fst gets for every key of word_parses.
FstMap(wp, vec_parse) ==
    LET vkeys == [i \in 1..Len(vec_parse) |-> ParsesKey(vec_parse[i])]
    IN  [w \in DOMAIN wp |-> BinarySearch(vkeys, ParsesKey(wp[w]))]

\* paradigms before parse_vangas: how many clusters counted each item list.
Stems(lmap, cl) ==
    LET items(i) == collect_vangas(lmap, cl[i].lemma_id, cl[i].variants).item
        S == {items(i) : i \in 1..Len(cl)} \ {<<>>}
    IN  [x \in S |-> Cardinality({i \in 1..Len(cl) : items(i) = x})]

\* The item lists parse_vangas keeps.
ProductiveFromTwo(stems) == {x \in DOMAIN stems : stems[x] >= 2}
Productive(stems) == {x \in DOMAIN stems : stems[x] >= 3}

\* Vanga::parse_vangas, the HashMap yielding the kept item lists in vorder.
parse_vangas(stems, all_tags, vorder) ==
    LET item(it) == [postfix |-> it.postfix, form |-> it.form,
                     tag |-> [j \in 1..Len(it.tag) |-> BinarySearch(all_tags, it.tag[j])]]
        vangas == [i \in 1..Len(vorder) |->
                     [popularity |-> stems[vorder[i]],
                      postfix |-> [j \in 1..Len(vorder[i]) |-> item(vorder[i][j])]]]
    IN  SortBy(vangas, LAMBDA v : <<0 - v.popularity>>)

\* Err(BinaryTagVanga): a kept item whose tag is not in the table of tags.
VangaTagErr(stems, all_tags) ==
    \E x \in Productive(stems) : \E j \in 1..Len(x) : \E t \in 1..Len(x[j].tag) :
        BinarySearch(all_tags, x[j].tag[t]) < 0

NoDict ==
    [fst |-> EmptyMap, word_parses |-> <<>>, tags |-> <<>>, lemmas |-> <<>>,
     lemmas_rows |-> <<>>, paradigms |-> <<>>]

\* Dictionary::from_opencorpora after collect_lemmas: link_connotation is
\* walked in `order`, the paradigms in `vorder`.
from_opencorpora(ls, conn, order, vorder) ==
    LET lmap == LemmataMap(ls)
        cl == Clusters(lmap, conn, order)
        e == ClustersErr(lmap, cl, 1)
        emitted == AllEmitted(lmap, cl, 1)
        tags == TagsTable(emitted)
        lemmas == LemmasTable(lmap, cl)
        rows == RowsTable(cl)
        vec_parse == VecParse(emitted, tags, lemmas, rows)
        word_parses == InsertWords(EmptyMap, WordKeys(emitted), 1, emitted, tags, lemmas, rows)
        stems == Stems(lmap, cl)
    IN  IF e # "" THEN [err |-> e, dict |-> NoDict]
        ELSE IF VangaTagErr(stems, tags) THEN [err |-> "BinaryTagVanga", dict |-> NoDict]
        ELSE [err |-> "",
              dict |-> [fst |-> FstMap(word_parses, vec_parse),
                        word_parses |-> vec_parse,
                        tags |-> tags,
                        lemmas |-> lemmas,
                        lemmas_rows |-> rows,
                        paradigms |-> parse_vangas(stems, tags, vorder)]]

\* The item lists parse_vangas will keep, for the action to enumerate vorder.
KeptStems(ls, conn) ==
    LET lmap == LemmataMap(ls)
        cl == Clusters(lmap, conn, SetToSeq(DOMAIN conn))
    IN  IF ClustersErr(lmap, cl, 1) # "" THEN {} ELSE Productive(Stems(lmap, cl))

-----------------------------------------------------------------------------
(* The lookup engine: parse and normalize.                                 *)

\* Method::Dictionary is the first variant of enum Method.
MethodDictionary == 0

\* A string or a tag as one component of a derived lexicographic Ord of a
\* struct: the elements shifted by one, closed by 0, so that the order of the
\* concatenated components is the order of the tuples.
Enc(v) == [i \in 1..Len(v) |-> v[i] + 1] \o <<0>>

\* get_tag, get_lemmas, get_parse, get_row_id: the index is 0-based.
InBound(vec, index) == index >= 0 /\ index < Len(vec)
get_tag(d, index) == d.tags[index + 1]
get_lemmas(d, index) == d.lemmas[index + 1]
get_parse(d, idx) == d.word_parses[idx + 1]
get_row_id(d, index) == d.lemmas_rows[index + 1]

\* Err(OutOfBound) of the getters for the parses of one list.
ParseOutOfBound(d, p) ==
    ~InBound(d.tags, p.tag) \/ ~InBound(d.lemmas, p.normal_form)
    \/ ~InBound(d.lemmas_rows, p.lemma_row_id)

try_into_parse(d, word, parse) ==
    [word |-> word, tags |-> get_tag(d, parse.tag),
     normal_form |-> get_lemmas(d, parse.normal_form), method |-> MethodDictionary]

try_into_normalized(d, parse) ==
    [normal_word |-> get_lemmas(d, parse.normal_form), tags |-> get_tag(d, parse.tag),
     method |-> MethodDictionary]

try_into_inflect(d, word, parse) ==
    [inflect_form |-> word, tags |-> get_tag(d, parse.tag),
     normal_form |-> get_lemmas(d, parse.normal_form), method |-> MethodDictionary]

\* The derived Ord of ParsedWord: (word, tags, normal_form, method).
ParsedWordKey(pw) == Enc(pw.word) \o Enc(pw.tags) \o Enc(pw.normal_form) \o <<pw.method>>

\* The derived Ord of NormalizedWord: (normal_word, tags, method).
NormalizedWordKey(nw) == Enc(nw.normal_word) \o Enc(nw.tags) \o <<nw.method>>

\* The ParsedWords pushed by the loop of parse_word, before the sort.
ParsedOf(d, word) ==
    LET vec_tags == get_parse(d, d.fst[word])
    IN  [i \in 1..Len(vec_tags) |-> try_into_parse(d, word, vec_tags[i])]

\* parse_word without `parsed.0.sort()`.
parse_word_unsorted(d, word) == [err |-> "", value |-> ParsedOf(d, word)]

\* MorphAnalyzer::parse_word for a word of the dictionary.
parse_word(d, word) ==
    IF ~InBound(d.word_parses, d.fst[word])
       \/ \E i \in 1..Len(get_parse(d, d.fst[word])) :
             ParseOutOfBound(d, get_parse(d, d.fst[word])[i])
    THEN [err |-> "OutOfBound", value |-> <<>>]
    ELSE [err |-> "", value |-> SortBy(ParsedOf(d, word), ParsedWordKey)]

\* The inner loop of normalized_word over the parses of the lemma string.
RECURSIVE NormalsOf(_, _, _, _, _)
NormalsOf(d, vec_parses, i, lemmas_link, normalized) ==
    IF i > Len(vec_parses) THEN normalized
    ELSE LET parse == vec_parses[i]
             normalized_word == try_into_normalized(d, parse)
         IN  NormalsOf(d, vec_parses, i + 1, lemmas_link,
                       IF is_normal(parse.form)
                          /\ ~SeqContains(normalized, normalized_word)
                          /\ SeqContains(lemmas_link, FormId(parse.form))
                       THEN Append(normalized, normalized_word)
                       ELSE normalized)

\* The outer loop of normalized_word; err is set by the first `?` that
\* returns.
RECURSIVE NormalizeFrom(_, _, _, _)
NormalizeFrom(d, vec_parses, i, normalized) ==
    IF i > Len(vec_parses) THEN [err |-> "", value |-> normalized]
    ELSE LET parse == vec_parses[i]
             word == get_lemmas(d, parse.normal_form)
         IN  IF ParseOutOfBound(d, parse) THEN [err |-> "OutOfBound", value |-> <<>>]
             ELSE IF is_normal(parse.form)
             THEN NormalizeFrom(d, vec_parses, i + 1,
                                Append(normalized, try_into_normalized(d, parse)))
             ELSE IF word \notin DOMAIN d.fst
             THEN [err |-> "LostNormalForm", value |-> <<>>]
             ELSE NormalizeFrom(d, vec_parses, i + 1,
                                NormalsOf(d, get_parse(d, d.fst[word]), 1,
                                          get_row_id(d, parse.lemma_row_id), normalized))

\* normalized_word that skips the parses which are normal forms themselves.
normalized_word_of_forms(d, word) ==
    LET r == NormalizeFrom(d, SelectSeq(get_parse(d, d.fst[word]),
                                        LAMBDA parse : ~is_normal(parse.form)), 1, <<>>)
    IN  IF r.err # "" THEN r
        ELSE [err |-> "", value |-> SortBy(r.value, NormalizedWordKey)]

\* MorphAnalyzer::normalized_word for a word of the dictionary.
normalized_word(d, word) ==
    LET r == NormalizeFrom(d, get_parse(d, d.fst[word]), 1, <<>>)
    IN  IF r.err # "" THEN r
        ELSE [err |-> "", value |-> SortBy(r.value, NormalizedWordKey)]

-----------------------------------------------------------------------------
(* The OOV predictor (vangovanie) and the public calls on any input.       *)

\* KNOWN_PREFIX: the 76 prefixes of the source, "в", "во", "взо", ...
KNOWN_PREFIX ==
    {<<1074>>, <<1074, 1086>>, <<1074, 1079, 1086>>, <<1074, 1085, 1077>>,
     <<1074, 1085, 1091, 1090, 1088, 1080>>, <<1074, 1086, 1079, 1086>>,
     <<1074, 1099>>, <<1076, 1086>>, <<1077, 1078, 1077>>, <<1079, 1072>>,
     <<1079, 1072, 1082, 1086>>, <<1080, 1079, 1086>>,
     <<1080, 1089, 1087, 1086, 1076>>, <<1082>>, <<1082, 1086, 1077>>,
     <<1082, 1091>>, <<1084, 1077, 1078>>, <<1084, 1077, 1078, 1076, 1086>>,
     <<1084, 1077, 1078, 1076, 1091>>, <<1085, 1072>>, <<1085, 1072, 1076>>,
     <<1085, 1072, 1076, 1086>>, <<1085, 1072, 1080>>, <<1085, 1077>>,
     <<1085, 1077, 1076, 1086>>, <<1085, 1080>>, <<1085, 1080, 1079, 1086>>,
     <<1086>>, <<1086, 1073>>, <<1086, 1073, 1086>>,
     <<1086, 1082, 1086, 1083, 1086>>, <<1086, 1090>>, <<1086, 1090, 1086>>,
     <<1087, 1072>>, <<1087, 1077, 1088, 1077>>, <<1087, 1086>>,
     <<1087, 1086, 1076>>, <<1087, 1086, 1076, 1086>>,
     <<1087, 1086, 1079, 1072>>, <<1087, 1086, 1089, 1083, 1077>>,
     <<1087, 1088, 1072>>, <<1087, 1088, 1077, 1076>>,
     <<1087, 1088, 1077, 1076, 1080>>, <<1087, 1088, 1077, 1076, 1086>>,
     <<1087, 1088, 1086>>, <<1087, 1088, 1086, 1090, 1080, 1074, 1086>>,
     <<1088, 1072, 1079, 1086>>, <<1089>>, <<1089, 1086>>,
     <<1089, 1074, 1077, 1088, 1093>>, <<1089, 1088, 1077, 1076, 1080>>,
     <<1089, 1091>>, <<1090, 1088, 1077>>, <<1091>>, <<1073, 1077, 1079>>,
     <<1073, 1077, 1089>>, <<1074, 1079>>, <<1074, 1089>>,
     <<1074, 1086, 1079>>, <<1074, 1086, 1089>>, <<1080, 1079>>,
     <<1080, 1089>>, <<1085, 1080, 1079>>, <<1085, 1080, 1089>>,
     <<1086, 1073, 1077, 1079>>, <<1086, 1073, 1077, 1089>>,
     <<1088, 1072, 1079>>, <<1088, 1072, 1089>>, <<1088, 1086, 1079>>,
     <<1088, 1086, 1089>>, <<1095, 1077, 1088, 1077, 1079>>,
     <<1095, 1077, 1088, 1077, 1089>>, <<1095, 1088, 1077, 1079>>,
     <<1095, 1088, 1077, 1089>>, <<1087, 1088, 1077>>, <<1087, 1088, 1080>>}

StartsWith(w, pre) == Len(pre) <= Len(w) /\ SubSeq(w, 1, Len(pre)) = pre
EndsWith(w, post) ==
    Len(post) <= Len(w) /\ SubSeq(w, Len(w) - Len(post) + 1, Len(w)) = post

\* str::strip_prefix for a prefix the word starts with.
StripPrefix(w, pre) == SubSeq(w, Len(pre) + 1, Len(w))

\* The numbers of leading characters of w whose UTF-8 encoding ends at the
\* byte index mid: empty when mid is no char boundary or is past the end.
CharsAtByte(w, mid) == {k \in 0..Len(w) : ByteLen(SubSeq(w, 1, k)) = mid}

\* The second phase, `for i in 1..5 { word.split_at(i) ... }`, from the byte
\* index i on: split_at panics when i is no char boundary, and a tail that is
\* a key of the FST reaches todo!().
RECURSIVE UnknownPrefixFrom(_, _, _)
UnknownPrefixFrom(d, word, i) ==
    IF i >= 5 THEN ""
    ELSE IF CharsAtByte(word, i) = {} THEN "panic: split_at"
    ELSE LET k == CHOOSE k \in CharsAtByte(word, i) : TRUE
         IN  IF SubSeq(word, k + 1, Len(word)) \in DOMAIN d.fst
             THEN "panic: todo"
             ELSE UnknownPrefixFrom(d, word, i + 1)

\* The first phase reaches todo!() for a known prefix whose stem has three
\* characters or more and is a key of the FST.
KnownPrefixFound(d, word) ==
    \E pref \in KNOWN_PREFIX :
        /\ StartsWith(word, pref)
        /\ Len(StripPrefix(word, pref)) >= 3
        /\ StripPrefix(word, pref) \in DOMAIN d.fst

\* The third phase reaches todo!() for a postfix of the paradigms the word
\* ends with.
PostfixFound(d, word) ==
    \E v \in 1..Len(d.paradigms) : \E j \in 1..Len(d.paradigms[v].postfix) :
        EndsWith(word, d.paradigms[v].postfix[j].postfix)

\* VangovanieRes::sort: vec.sort_by(|v1, v2| v1.score.total_cmp(&v2.score)),
\* a stable sort by increasing score.
VangovanieRes_sort(vec) ==
    LET perm == SortIdx([i \in 1..Len(vec) |-> <<vec[i].score>>])
    IN  [i \in 1..Len(vec) |-> vec[perm[i]]]

\* vangovanie: no phase pushes a candidate, so words_vangas is empty when it
\* is sorted and returned.
vangovanie(d, word) ==
    IF KnownPrefixFound(d, word) THEN [err |-> "panic: todo", value |-> <<>>]
    ELSE IF UnknownPrefixFrom(d, word, 1) # ""
    THEN [err |-> UnknownPrefixFrom(d, word, 1), value |-> <<>>]
    ELSE IF PostfixFound(d, word) THEN [err |-> "panic: todo", value |-> <<>>]
    ELSE [err |-> "", value |-> VangovanieRes_sort(<<>>)]

\* The loop of normalized_word over the candidates of vangovanie, from the
\* i-th on: a candidate whose form is normal is pushed with the word as its
\* normal word, any other candidate ends the call with Err(FutureRelease).
RECURSIVE normalize_vanga(_, _, _, _)
normalize_vanga(word, vanga, i, normalized) ==
    IF i > Len(vanga) THEN [err |-> "", value |-> normalized]
    ELSE IF is_normal(vanga[i].form)
    THEN normalize_vanga(word, vanga, i + 1,
                         Append(normalized,
                                [normal_word |-> word, tags |-> vanga[i].tags,
                                 method |-> vanga[i].method]))
    ELSE [err |-> "FutureRelease", value |-> <<>>]

\* MorphAnalyzer::parse: parse_word with both branches of map.get(word).  The
\* word is looked up as it is given.
MorphAnalyzer_parse(d, word) ==
    IF word \in DOMAIN d.fst THEN parse_word(d, word)
    ELSE LET vanga == vangovanie(d, word)
         IN  IF vanga.err # "" THEN vanga
             ELSE [err |-> "", value |-> <<>>]

\* MorphAnalyzer::normalize: normalized_word with both branches.
MorphAnalyzer_normalize(d, word) ==
    IF word \in DOMAIN d.fst THEN normalized_word(d, word)
    ELSE LET vanga == vangovanie(d, word)
         IN  IF vanga.err # "" THEN vanga
             ELSE normalize_vanga(word, vanga.value, 1, <<>>)

\* MorphAnalyzer::is_known
MorphAnalyzer_is_known(d, word) == word \in DOMAIN d.fst

-----------------------------------------------------------------------------
(* The lookup engine: inflection and declension.                           *)

\* analyzer::declension::alphabet_stream, after section 4.4.1 of the design:
\* the lower bound is the longest common prefix of the word and the lemma
\* string, the upper bound is that prefix with its last symbol advanced to the
\* next symbol of the alphabet; without an upper bound the range is the lower
\* bound alone.  The alphabet is 'а'..'я' and 'ё' in the order of the code
\* points, the order a binary search needs.
InAlphabet(c) == (c >= 1072 /\ c <= 1103) \/ c = Yo
HasNextSymbol(c) == c # Yo
NextSymbol(c) == IF c = 1103 THEN Yo ELSE c + 1

RECURSIVE CommonPrefix(_, _)
CommonPrefix(a, b) ==
    IF a = <<>> \/ b = <<>> \/ Head(a) # Head(b) THEN <<>>
    ELSE <<Head(a)>> \o CommonPrefix(Tail(a), Tail(b))

NoLast == [some |-> FALSE, text |-> <<>>]
SomeLast(text) == [some |-> TRUE, text |-> text]

alphabet_stream(word, normal_form, tag) ==
    LET prefix == CommonPrefix(word, normal_form)
        last == prefix[Len(prefix)]
    IN  IF word = <<>> THEN [err |-> "EmptyWord", ranges |-> <<>>]
        ELSE IF \E i \in 1..Len(prefix) : ~InAlphabet(prefix[i])
        THEN [err |-> "BinaryChar", ranges |-> <<>>]
        ELSE IF prefix = <<>> \/ ~HasNextSymbol(last)
        THEN [err |-> "", ranges |-> << <<prefix, NoLast>> >>]
        ELSE [err |-> "",
              ranges |-> << <<prefix,
                              SomeLast(SubSeq(prefix, 1, Len(prefix) - 1)
                                       \o <<NextSymbol(last)>>)>> >>]

NoWordId == [some |-> FALSE, id |-> 0]
SomeWordId(id) == [some |-> TRUE, id |-> id]
NoGrammemes == [some |-> FALSE, grammemes |-> <<>>]
SomeGrammemes(g) == [some |-> TRUE, grammemes |-> g]

\* The filter of id_forms for one parse.
\* The filter of id_forms without the test of the lemma ids.
IdFormKeptAll(p, ids, word_id, grammemes) ==
    (~grammemes.some /\ word_id.some) => (is_inizio(p.form) \/ is_normal(p.form))
IdFormKept(p, ids, word_id, grammemes) ==
    IF ~grammemes.some /\ word_id.some
    THEN word_id.id = FormId(p.form) /\ (is_inizio(p.form) \/ is_normal(p.form))
    ELSE SeqContains(ids, FormId(p.form))

\* MorphAnalyzer::id_forms: the pairs <<i, parse>> in the order of word_parses.
RECURSIVE IdFormsFrom(_, _, _, _, _)
IdFormsFrom(d, i, ids, word_id, grammemes) ==
    IF i > Len(d.word_parses) THEN <<>>
    ELSE LET kept == SelectSeq(d.word_parses[i],
                               LAMBDA p : IdFormKept(p, ids, word_id, grammemes))
         IN  [j \in 1..Len(kept) |-> <<i - 1, kept[j]>>]
             \o IdFormsFrom(d, i + 1, ids, word_id, grammemes)

id_forms(d, ids, word_id, grammemes) == IdFormsFrom(d, 1, ids, word_id, grammemes)

\* The inner loop of collect_stream_hashset over the ranges of one parse.
RECURSIVE PushRanges(_, _, _, _)
PushRanges(hash_set, ranges, j, word_form) ==
    IF j > Len(ranges) THEN hash_set
    ELSE PushRanges(MapPut(hash_set, ranges[j],
                           PushUnique(MapEntry(hash_set, ranges[j]), word_form)),
                    ranges, j + 1, word_form)

\* MorphAnalyzer::collect_stream_hashset.
RECURSIVE collect_stream_hashset(_, _, _, _, _, _)
collect_stream_hashset(d, word, grammemes, forms, k, hash_set) ==
    IF k > Len(forms) THEN [err |-> "", hash_set |-> hash_set]
    ELSE LET i == forms[k][1]
             parse == forms[k][2]
             tag == get_tag(d, parse.tag)
             normal_form == get_lemmas(d, parse.normal_form)
             stream == alphabet_stream(word, normal_form, tag)
         IN  IF grammemes.some
                /\ ~(\A x \in SeqToSet(grammemes.grammemes) : SeqContains(tag, x))
             THEN collect_stream_hashset(d, word, grammemes, forms, k + 1, hash_set)
             ELSE IF stream.err # "" THEN [err |-> "Declension", hash_set |-> EmptyMap]
             ELSE collect_stream_hashset(d, word, grammemes, forms, k + 1,
                     PushRanges(hash_set, stream.ranges, 1,
                                [i |-> i, tag |-> tag, lemma |-> normal_form]))

\* The keys fst streams for one range, in the order of the bytes:
\* range().ge(first).lt(last), or range().ge(first).le(first).
InRange(key, range) ==
    IF range[2].some
    THEN CmpSeq(range[1], key) <= 0 /\ CmpSeq(key, range[2].text) < 0
    ELSE key = range[1]

RangeKeys(d, range) ==
    SortBy(SetToSeq({key \in DOMAIN d.fst : InRange(key, range)}), Identity)

\* The loop of iter_fst over the word forms of one streamed key.
RECURSIVE PushForms(_, _, _, _, _)
PushForms(inflect, vec, j, key, value) ==
    IF j > Len(vec) THEN inflect
    ELSE LET inflect_word == [inflect_form |-> key, tags |-> vec[j].tag,
                              normal_form |-> vec[j].lemma, method |-> MethodDictionary]
         IN  PushForms(IF vec[j].i = value THEN PushUnique(inflect, inflect_word)
                                           ELSE inflect,
                       vec, j + 1, key, value)

\* The loop of iter_fst over the stream of one range.
RECURSIVE StreamRange(_, _, _, _, _)
StreamRange(d, inflect, keys, n, vec) ==
    IF n > Len(keys) THEN inflect
    ELSE StreamRange(d, PushForms(inflect, vec, 1, keys[n], d.fst[keys[n]]), keys, n + 1, vec)

\* MorphAnalyzer::iter_fst, the HashMap yielding its ranges in `order`.
RECURSIVE iter_fst(_, _, _, _, _)
iter_fst(d, hash_set, order, n, inflect) ==
    IF n > Len(order) THEN inflect
    ELSE iter_fst(d, hash_set, order, n + 1,
                  StreamRange(d, inflect, RangeKeys(d, order[n]), 1, hash_set[order[n]]))


\* The order in which a HashMap or HashSet yields its elements is not
\* specified: increasing or decreasing by Key, as the caller chooses.
Reverse(v) == [i \in 1..Len(v) |-> v[Len(v) + 1 - i]]
HashOrder(S, Key(_), rev) ==
    IF rev THEN Reverse(SortBy(SetToSeq(S), Key)) ELSE SortBy(SetToSeq(S), Key)

RangeKey(range) ==
    Enc(range[1]) \o (IF range[2].some THEN <<1>> \o Enc(range[2].text) ELSE <<0>>)

\* MorphAnalyzer::inflect_parse: `inflect` after the call, or err.
inflect_parse(d, word, parse, grammemes, inflect, rev) ==
    IF ParseOutOfBound(d, parse) THEN [err |-> "OutOfBound", value |-> <<>>]
    ELSE IF ~grammemes.some /\ (is_inizio(parse.form) \/ is_normal(parse.form))
    THEN [err |-> "", value |-> Append(inflect, try_into_inflect(d, word, parse))]
    ELSE LET ids == get_row_id(d, parse.lemma_row_id)
             forms == id_forms(d, ids, SomeWordId(FormId(parse.form)), grammemes)
             hs == collect_stream_hashset(d, word, grammemes, forms, 1, EmptyMap)
         IN  IF hs.err # "" THEN [err |-> hs.err, value |-> <<>>]
             ELSE [err |-> "",
                   value |-> iter_fst(d, hs.hash_set,
                                      HashOrder(DOMAIN hs.hash_set, RangeKey, rev),
                                      1, inflect)]

\* The loop of inflect_word over the parses of the word.
RECURSIVE InflectFrom(_, _, _, _, _, _, _)
InflectFrom(d, word, vec_parses, i, grammemes, inflect, rev) ==
    IF i > Len(vec_parses) THEN [err |-> "", value |-> inflect]
    ELSE LET r == inflect_parse(d, word, vec_parses[i], grammemes, inflect, rev)
         IN  IF r.err # "" THEN r
             ELSE InflectFrom(d, word, vec_parses, i + 1, grammemes, r.value, rev)

\* MorphAnalyzer::inflect_word for a word of the dictionary; Ok(None) is the
\* empty value.
inflect_word(d, word, grammemes, rev) ==
    IF word \notin DOMAIN d.fst THEN [err |-> "FutureRelease", value |-> <<>>]
    ELSE InflectFrom(d, word, get_parse(d, d.fst[word]), 1, grammemes, <<>>, rev)

\* `.iter().find(|parse| parse.tag == tag)`: the first parse of the list with
\* the tag index, <<>> when there is none.
FindByTag(vec_parses, tag) ==
    LET found == SelectSeq(vec_parses, LAMBDA parse : parse.tag = tag)
    IN  IF found = <<>> THEN <<>> ELSE <<Head(found)>>

\* MorphAnalyzer::inflect_parsed_words for a ParsedWord; Ok(None) is the empty
\* value.
inflect_parsed_words(d, word, grammemes, rev) ==
    IF word.word \notin DOMAIN d.fst THEN [err |-> "FutureRelease", value |-> <<>>]
    ELSE IF BinarySearch(d.tags, word.tags) < 0 THEN [err |-> "BinaryTag", value |-> <<>>]
    ELSE IF ~InBound(d.word_parses, d.fst[word.word])
    THEN [err |-> "OutOfBound", value |-> <<>>]
    ELSE LET parse == FindByTag(get_parse(d, d.fst[word.word]),
                                BinarySearch(d.tags, word.tags))
         IN  IF parse = <<>> THEN [err |-> "LostParse", value |-> <<>>]
             ELSE inflect_parse(d, word.word, parse[1], grammemes, <<>>, rev)

\* MorphAnalyzer::declension_ids with an empty `inflect`.
declension_ids(d, word, ids, rev) ==
    LET forms == id_forms(d, ids, NoWordId, NoGrammemes)
        hs == collect_stream_hashset(d, word, NoGrammemes, forms, 1, EmptyMap)
    IN  IF hs.err # "" THEN [err |-> hs.err, value |-> <<>>]
        ELSE [err |-> "",
              value |-> iter_fst(d, hs.hash_set,
                                 HashOrder(DOMAIN hs.hash_set, RangeKey, rev), 1, <<>>)]

\* The loop of declension_word over set_ids.
RECURSIVE DeclensionFrom(_, _, _, _, _, _)
DeclensionFrom(d, word, rows, n, inflects, rev) ==
    IF n > Len(rows) THEN [err |-> "", value |-> inflects]
    ELSE LET r == declension_ids(d, word, rows[n], rev)
         IN  IF r.err # "" THEN r
             ELSE DeclensionFrom(d, word, rows, n + 1,
                                 IF r.value # <<>> THEN Append(inflects, r.value)
                                                   ELSE inflects,
                                 rev)

\* MorphAnalyzer::declension_word for a word of the dictionary.
declension_word(d, word, rev) ==
    LET vec_parses == get_parse(d, d.fst[word])
        set_ids == {d.lemmas_rows[vec_parses[i].lemma_row_id + 1] :
                      i \in {j \in 1..Len(vec_parses) :
                               InBound(d.lemmas_rows, vec_parses[j].lemma_row_id)}}
    IN  IF word \notin DOMAIN d.fst THEN [err |-> "FutureRelease", value |-> <<>>]
        ELSE DeclensionFrom(d, word, HashOrder(set_ids, Identity, rev), 1, <<>>, rev)

\* MorphAnalyzer::declension_parsed_word for a ParsedWord; Ok(None) is the
\* empty value.
declension_parsed_word(d, word, rev) ==
    IF word.word \notin DOMAIN d.fst THEN [err |-> "FutureRelease", value |-> <<>>]
    ELSE IF BinarySearch(d.tags, word.tags) < 0 THEN [err |-> "BinaryTag", value |-> <<>>]
    ELSE IF ~InBound(d.word_parses, d.fst[word.word])
    THEN [err |-> "OutOfBound", value |-> <<>>]
    ELSE LET parse == FindByTag(get_parse(d, d.fst[word.word]),
                                BinarySearch(d.tags, word.tags))
         IN  IF parse = <<>> THEN [err |-> "LostParse", value |-> <<>>]
             ELSE IF ~InBound(d.lemmas_rows, parse[1].lemma_row_id)
             THEN [err |-> "OutOfBound", value |-> <<>>]
             ELSE declension_ids(d, word.word, get_row_id(d, parse[1].lemma_row_id), rev)

-----------------------------------------------------------------------------
(* The sources.                                                            *)

\* Surface forms: "ее", "её" and "ёе".
Texts == {<<Ye, Ye>>, <<Ye, Yo>>, <<Yo, Ye>>}
FormGrams == {<<Nominativus>>, <<Genetivus>>}
LemmaGrams == {<<Noun>>}

GramWords == [text : Texts, gram : FormGrams]

\* The <f> elements of a lemma: none, or the normal form first (as OpenCorpora
\* lists it) and then up to MaxForms - 1 other forms.
FormsOf(text) ==
    {<<>>} \cup {<<[text |-> text, gram |-> g]>> \o rest :
                   g \in FormGrams, rest \in SeqsUpTo(GramWords, MaxForms - 1)}

LemmasOf(id) ==
    UNION {{[id |-> id, normal_form |-> [text |-> text, gram |-> gram], forms |-> forms] :
              gram \in LemmaGrams, forms \in FormsOf(text)} : text \in Texts}

\* Lemmas 1..n, n <= MaxLemmas.
Lemmata ==
    UNION {{ls \in [1..n -> UNION {LemmasOf(id) : id \in 1..n}] :
              \A i \in 1..n : ls[i].id = i} : n \in 1..MaxLemmas}

\* The lemmas with at most one <f> element.
ShortLemmasOf(id) == {l \in LemmasOf(id) : Len(l.forms) <= 1}

\* The sources of SpecParse: one lemma with up to MaxForms forms, or lemmas
\* 1..n, 2 <= n <= MaxLemmas, with at most one form each.
ParseLemmata ==
    {<<l>> : l \in LemmasOf(1)}
    \cup UNION {{ls \in [1..n -> UNION {ShortLemmasOf(id) : id \in 1..n}] :
                   \A i \in 1..n : ls[i].id = i} : n \in 2..MaxLemmas}

\* The sources of SpecNormalize: lemma 1 with at most one form and lemma 2 with
\* up to MaxForms forms, so that a form of lemma 2 can have the text of lemma 1.
NormalizeLemmata == {<<l1, l2>> : l1 \in ShortLemmasOf(1), l2 \in LemmasOf(2)}

LemmaLinks ==
    {l \in [type_id : {1}, lemma_id : 1..MaxLemmas, variant : 1..MaxLemmas] :
        l.lemma_id # l.variant}

\* The sources of SpecLinks: lemmas without forms, one letter each, and links
\* of a plain type (1), a double-hop type (6) and an excluded type (7).
LinkTypes == {1, 6, 7}
LinkSet ==
    {l \in [type_id : LinkTypes, lemma_id : 1..MaxLinkLemmas, variant : 1..MaxLinkLemmas] :
        l.lemma_id # l.variant}
LinkLemmata ==
    [id \in 1..MaxLinkLemmas |->
        [id |-> id, normal_form |-> [text |-> <<1071 + id>>, gram |-> <<Noun>>],
         forms |-> <<>>]]

\* The sources of SpecVanga: lemmas 1..n, each with its own three-letter stem
\* and two forms, the stem followed by one of four pairs of endings: ("а", "у"),
\* ("", "у"), ("а", "аааааа") and ("", "уууууу"); the lemmas of one pair of
\* endings follow each other in the file.
VangaLemmata ==
    LET stem(id) == <<1072, 1073, 1073 + id>>
        long(c) == <<c, c, c, c, c, c>>
        Endings == << <<<<1072>>, <<1091>>>>, <<<<>>, <<1091>>>>,
                      <<<<1072>>, long(1072)>>, <<<<>>, long(1091)>> >>
        LemmaOf(id, e) ==
            [id |-> id,
             normal_form |-> [text |-> stem(id) \o e[1], gram |-> <<Noun>>],
             forms |-> << [text |-> stem(id) \o e[1], gram |-> <<Nominativus>>],
                          [text |-> stem(id) \o e[2], gram |-> <<Genetivus>>] >>]
        Grouped(n) == {f \in [1..n -> 1..Len(Endings)] :
                          \A i \in 1..(n - 1) : f[i] <= f[i + 1]}
    IN  UNION {{[i \in 1..n |-> LemmaOf(i, Endings[f[i]])] : f \in Grouped(n)} :
                 n \in 1..MaxVangaLemmas}

\* The inputs of the calls on any input: the words of the dictionary as they
\* are stored, with a capital first letter, in capitals, and after each known
\* prefix of one letter.
InputWords(d) ==
    LET ToUpperChar(c) == IF c = Yo THEN 1025
                          ELSE IF c >= 1072 /\ c <= 1103 THEN c - 32
                          ELSE c
        Capitalized(w) == [i \in 1..Len(w) |-> IF i = 1 THEN ToUpperChar(w[i]) ELSE w[i]]
        Capitals(w) == [i \in 1..Len(w) |-> ToUpperChar(w[i])]
    IN  (DOMAIN d.fst) \cup {Capitalized(w) : w \in DOMAIN d.fst}
                       \cup {Capitals(w) : w \in DOMAIN d.fst}
                       \cup {pref \o w : pref \in {q \in KNOWN_PREFIX : Len(q) = 1},
                                         w \in DOMAIN d.fst}

\* The grammeme sets asked of inflect_forms and inflect_parsed: none, one case,
\* the other case.
GrammemSets == {<<>>, <<Nominativus>>, <<Genetivus>>}
NoQuery == <<"", <<>>>>

Init ==
    /\ lemmata \in Lemmata
    /\ links \in SeqsUpTo(LemmaLinks, MaxLemmaLinks)
    /\ pc = "source"
    /\ link_connotation = EmptyMap
    /\ dict = NoDict
    /\ err = ""
    /\ query = NoQuery
    /\ result = <<>>

InitParse ==
    /\ lemmata \in ParseLemmata
    /\ links \in (IF Len(lemmata) = 1 THEN {<<>>} ELSE SeqsUpTo(LemmaLinks, 1))
    /\ pc = "source"
    /\ link_connotation = EmptyMap
    /\ dict = NoDict
    /\ err = ""
    /\ query = NoQuery
    /\ result = <<>>

\* The lists VangovanieRes::sort is given: up to MaxCandidates candidates of
\* the two prefix methods, each with the score of its method, 0.75 or 0.5,
\* divided by the number of candidates (in units of 1/6000).
Candidates ==
    LET score(method, n) == ((IF method = "KnownPrefix" THEN 75 ELSE 50) * 60) \div n
        res(c, n) == [vanga_id |-> <<>>, affix |-> c.affix, vec_tags |-> <<>>,
                      score |-> score(c.method, n), method |-> c.method]
        Shapes == [affix : {<<1074>>, <<1086>>}, method : {"KnownPrefix", "UnknownPrefix"}]
    IN  UNION {{[i \in 1..n |-> res(f[i], n)] : f \in [1..n -> Shapes]} :
                 n \in 0..MaxCandidates}

\* The inputs of the functions called on their own.  Those of
\* longest_common_substring: up to MaxWords strings of up to MaxWordLen letters
\* 'е' and 'ё'.  Those of the loop of normalized_word over the candidates of
\* vangovanie: the word "вее" and up to MaxCandidates candidates, as
\* normalized_word reads them (tags, form, method).
InitLcs ==
    /\ lemmata = <<>>
    /\ links = <<>>
    /\ pc = "source"
    /\ link_connotation = EmptyMap
    /\ dict = NoDict
    /\ err = ""
    /\ query \in {<<"lcs", data>> : data \in SeqsUpTo(SeqsUpTo({Ye, Yo}, MaxWordLen), MaxWords)}
                 \cup {<<"sort", vec>> : vec \in Candidates}
                 \cup {<<"normalize_vanga", vec, <<1074, Ye, Ye>>>> :
                         vec \in SeqsUpTo([tags : {<<Noun>>},
                                           form : {FormVanga(FNormal), FormVanga(FInizio),
                                                   FormVanga(FDifferent)},
                                           method : {<<"KnownPrefix", <<1074>>>>,
                                                     <<"UnknownPrefix", <<1074>>>>,
                                                     <<"Postfix">>}],
                                          MaxCandidates)}
    /\ result = <<>>

\* The two lemmas of SpecNormalize, without a link or with one link between
\* them, either way round.
InitNormalize ==
    /\ lemmata \in NormalizeLemmata
    /\ links \in {<<>>} \cup {<<l>> : l \in {x \in LemmaLinks : x.lemma_id <= 2 /\ x.variant <= 2}}
    /\ pc = "source"
    /\ link_connotation = EmptyMap
    /\ dict = NoDict
    /\ err = ""
    /\ query = NoQuery
    /\ result = <<>>

\* SpecReaders: one lemma with at most one form, and MaxReaders threads that
\* hold a reference to the analyzer.  query[r] is what reader r asked, the FST
\* value it got and how far its call is; result[r] is what the call returned.
InitReaders ==
    /\ lemmata \in {<<l>> : l \in ShortLemmasOf(1)}
    /\ links = <<>>
    /\ pc = "source"
    /\ link_connotation = EmptyMap
    /\ dict = NoDict
    /\ err = ""
    /\ query = [r \in 1..MaxReaders |-> <<"", <<>>, 0, "idle">>]
    /\ result = [r \in 1..MaxReaders |-> <<>>]

\* The sources of SpecRuns: those of SpecLinks whose links are of the plain type.
InitRuns ==
    /\ lemmata = LinkLemmata
    /\ links \in SeqsUpTo({l \in LinkSet : l.type_id = 1}, MaxLinks)
    /\ pc = "source"
    /\ link_connotation = EmptyMap
    /\ dict = NoDict
    /\ err = ""
    /\ query = NoQuery
    /\ result = <<>>

InitVanga ==
    /\ lemmata \in VangaLemmata
    /\ links = <<>>
    /\ pc = "source"
    /\ link_connotation = EmptyMap
    /\ dict = NoDict
    /\ err = ""
    /\ query = NoQuery
    /\ result = <<>>

\* The sources of SpecOther: lemmas 1..n of one paradigm, each with its own
\* three-letter stem and the forms stem + "а" and stem + "у"; some of the lemmas
\* are proper names and carry the grammeme Name.
InitOther ==
    /\ lemmata \in
         LET stem(id) == <<1072, 1073, 1073 + id>>
             LemmaOf(id, name) ==
                 [id |-> id,
                  normal_form |-> [text |-> stem(id) \o <<1072>>,
                                   gram |-> IF name THEN <<Noun, Name>> ELSE <<Noun>>],
                  forms |-> << [text |-> stem(id) \o <<1072>>, gram |-> <<Nominativus>>],
                               [text |-> stem(id) \o <<1091>>, gram |-> <<Genetivus>>] >>]
         IN  UNION {{[i \in 1..n |-> LemmaOf(i, f[i])] : f \in [1..n -> BOOLEAN]} :
                      n \in 1..MaxVangaLemmas}
    /\ links = <<>>
    /\ pc = "source"
    /\ link_connotation = EmptyMap
    /\ dict = NoDict
    /\ err = ""
    /\ query = NoQuery
    /\ result = <<>>
InitLinks ==
    /\ lemmata = LinkLemmata
    /\ links \in SeqsUpTo(LinkSet, MaxLinks)
    /\ pc = "source"
    /\ link_connotation = EmptyMap
    /\ dict = NoDict
    /\ err = ""
    /\ query = NoQuery
    /\ result = <<>>

-----------------------------------------------------------------------------
(* The operations.                                                         *)

\* Links::collect_lemmas called on its own.
CollectLemmas ==
    /\ pc = "source"
    /\ link_connotation' = collect_lemmas(links)
    /\ pc' = "collected"
    /\ UNCHANGED <<lemmata, links, dict, err, query, result>>

\* Dictionary::from_opencorpora, which collects the links itself.
FromOpencorpora ==
    /\ pc \in {"source", "collected"}
    /\ LET conn == collect_lemmas(links)
       IN  \E order \in Perms(DOMAIN conn) :
           \E vorder \in Perms(KeptStems(lemmata, conn)) :
              LET r == from_opencorpora(lemmata, conn, order, vorder)
              IN  /\ link_connotation' = conn
                  /\ dict' = r.dict
                  /\ err' = r.err
                  /\ pc' = IF r.err = "" THEN "ready" ELSE "failed"
    /\ UNCHANGED <<lemmata, links, query, result>>

\* MorphAnalyzer::parse
Parse ==
    /\ pc = "ready"
    /\ \E word \in DOMAIN dict.fst :
         LET r == parse_word(dict, word)
         IN  /\ query' = <<"parse", word>>
             /\ result' = r.value
             /\ err' = r.err
    /\ pc' = "answered"
    /\ UNCHANGED <<lemmata, links, link_connotation, dict>>

\* MorphAnalyzer::normalize
Normalize ==
    /\ pc = "ready"
    /\ \E word \in DOMAIN dict.fst :
         LET r == normalized_word(dict, word)
         IN  /\ query' = <<"normalize", word>>
             /\ result' = r.value
             /\ err' = r.err
    /\ pc' = "answered"
    /\ UNCHANGED <<lemmata, links, link_connotation, dict>>

\* MorphAnalyzer::inflect_inizio
InflectInizio ==
    /\ pc = "ready"
    /\ \E word \in DOMAIN dict.fst : \E rev \in BOOLEAN :
         LET r == inflect_word(dict, word, NoGrammemes, rev)
         IN  /\ query' = <<"inflect_inizio", word>>
             /\ result' = r.value
             /\ err' = r.err
    /\ pc' = "answered"
    /\ UNCHANGED <<lemmata, links, link_connotation, dict>>

\* MorphAnalyzer::declension
Declension ==
    /\ pc = "ready"
    /\ \E word \in DOMAIN dict.fst : \E rev \in BOOLEAN :
         LET r == declension_word(dict, word, rev)
         IN  /\ query' = <<"declension", word>>
             /\ result' = r.value
             /\ err' = r.err
    /\ pc' = "answered"
    /\ UNCHANGED <<lemmata, links, link_connotation, dict>>

\* longest_common_substring(data) called on its own.
\* MorphAnalyzer::inflect_forms
InflectForms ==
    /\ pc = "ready"
    /\ \E word \in DOMAIN dict.fst : \E grammemes \in GrammemSets : \E rev \in BOOLEAN :
         LET r == inflect_word(dict, word, SomeGrammemes(grammemes), rev)
         IN  /\ query' = <<"inflect_forms", word, grammemes>>
             /\ result' = r.value
             /\ err' = r.err
    /\ pc' = "answered"
    /\ UNCHANGED <<lemmata, links, link_connotation, dict>>

\* MorphAnalyzer::inflect_parsed on a ParsedWord that parse returned.
InflectParsed ==
    /\ pc = "ready"
    /\ \E word \in DOMAIN dict.fst : \E grammemes \in GrammemSets : \E rev \in BOOLEAN :
       \E n \in 1..Len(parse_word(dict, word).value) :
         LET parse == parse_word(dict, word).value[n]
             r == inflect_parsed_words(dict, parse, SomeGrammemes(grammemes), rev)
         IN  /\ query' = <<"inflect_parsed", parse, grammemes>>
             /\ result' = r.value
             /\ err' = r.err
    /\ pc' = "answered"
    /\ UNCHANGED <<lemmata, links, link_connotation, dict>>

\* MorphAnalyzer::declension_parsed on a ParsedWord that parse returned.
DeclensionParsed ==
    /\ pc = "ready"
    /\ \E word \in DOMAIN dict.fst : \E rev \in BOOLEAN :
       \E n \in 1..Len(parse_word(dict, word).value) :
         LET parse == parse_word(dict, word).value[n]
             r == declension_parsed_word(dict, parse, rev)
         IN  /\ query' = <<"declension_parsed", parse>>
             /\ result' = r.value
             /\ err' = r.err
    /\ pc' = "answered"
    /\ UNCHANGED <<lemmata, links, link_connotation, dict>>
Lcs ==
    /\ pc = "source"
    /\ query[1] = "lcs"
    /\ result' = longest_common_substring(query[2])
    /\ pc' = "answered"
    /\ UNCHANGED <<lemmata, links, link_connotation, dict, err, query>>

\* VangovanieRes::sort(vec) called on its own.
Sort ==
    /\ pc = "source"
    /\ query[1] = "sort"
    /\ result' = VangovanieRes_sort(query[2])
    /\ pc' = "answered"
    /\ UNCHANGED <<lemmata, links, link_connotation, dict, err, query>>

\* The loop of normalized_word over the candidates of vangovanie, on its own.
NormalizeVanga ==
    /\ pc = "source"
    /\ query[1] = "normalize_vanga"
    /\ LET r == normalize_vanga(query[3], query[2], 1, <<>>)
       IN  /\ result' = r.value
           /\ err' = r.err
    /\ pc' = "answered"
    /\ UNCHANGED <<lemmata, links, link_connotation, dict, query>>

\* MorphAnalyzer::parse on any input.
ParseInput ==
    /\ pc = "ready"
    /\ \E word \in InputWords(dict) :
         LET r == MorphAnalyzer_parse(dict, word)
         IN  /\ query' = <<"parse_input", word>>
             /\ result' = r.value
             /\ err' = r.err
    /\ pc' = "answered"
    /\ UNCHANGED <<lemmata, links, link_connotation, dict>>

\* MorphAnalyzer::normalize on any input.
NormalizeInput ==
    /\ pc = "ready"
    /\ \E word \in InputWords(dict) :
         LET r == MorphAnalyzer_normalize(dict, word)
         IN  /\ query' = <<"normalize_input", word>>
             /\ result' = r.value
             /\ err' = r.err
    /\ pc' = "answered"
    /\ UNCHANGED <<lemmata, links, link_connotation, dict>>

\* MorphAnalyzer::is_known on any input.
IsKnown ==
    /\ pc = "ready"
    /\ \E word \in InputWords(dict) :
         /\ query' = <<"is_known", word>>
         /\ result' = <<MorphAnalyzer_is_known(dict, word)>>
    /\ err' = ""
    /\ pc' = "answered"
    /\ UNCHANGED <<lemmata, links, link_connotation, dict>>

\* The public calls of impl MorphAnalyzer on a word of the dictionary; the hash
\* sets of the call are walked as rev says.
Call(d, operation, word, rev) ==
    IF operation = "parse" THEN MorphAnalyzer_parse(d, word)
    ELSE IF operation = "normalize" THEN MorphAnalyzer_normalize(d, word)
    ELSE IF operation = "is_known"
    THEN [err |-> "", value |-> <<MorphAnalyzer_is_known(d, word)>>]
    ELSE IF operation = "inflect_inizio" THEN inflect_word(d, word, NoGrammemes, rev)
    ELSE declension_word(d, word, rev)

\* A reader that is not inside a call starts one: `map.get(word)` on self.fst.
Lookup ==
    /\ pc = "ready"
    /\ \E r \in 1..MaxReaders :
         /\ query[r][4] \in {"idle", "answered"}
         /\ \E operation \in {"parse", "normalize", "is_known", "inflect_inizio",
                               "declension"} :
            \E word \in DOMAIN dict.fst :
               /\ query' = [query EXCEPT ![r] = <<operation, word, dict.fst[word], "looked">>]
               /\ result' = [result EXCEPT ![r] = <<>>]
    /\ UNCHANGED <<lemmata, links, pc, link_connotation, dict, err>>

\* The rest of a call that writes through its reference to the analyzer.
AnswerAndClear ==
    /\ pc = "ready"
    /\ \E r \in 1..MaxReaders :
         /\ query[r][4] = "looked"
         /\ \E rev \in BOOLEAN :
              result' = [result EXCEPT ![r] =
                            Call([dict EXCEPT !.fst = MapPut(@, query[r][2], query[r][3])],
                                 query[r][1], query[r][2], rev)]
         /\ query' = [query EXCEPT ![r][4] = "answered"]
    /\ dict' = [dict EXCEPT !.word_parses = <<>>]
    /\ UNCHANGED <<lemmata, links, pc, link_connotation, err>>
\* The rest of the call of a reader, with the FST value the reader got: the
\* call reads the tables through &self and returns.
Answer ==
    /\ pc = "ready"
    /\ \E r \in 1..MaxReaders :
         /\ query[r][4] = "looked"
         /\ \E rev \in BOOLEAN :
              result' = [result EXCEPT ![r] =
                            Call([dict EXCEPT !.fst = MapPut(@, query[r][2], query[r][3])],
                                 query[r][1], query[r][2], rev)]
         /\ query' = [query EXCEPT ![r][4] = "answered"]
    /\ UNCHANGED <<lemmata, links, pc, link_connotation, dict, err>>

\* The caller takes the answer; the analyzer is ready for the next query.
Return ==
    /\ pc = "answered"
    /\ pc' = "ready"
    /\ query' = NoQuery
    /\ result' = <<>>
    /\ err' = ""
    /\ UNCHANGED <<lemmata, links, link_connotation, dict>>

Next == FromOpencorpora \/ Parse \/ Normalize \/ InflectInizio \/ Declension \/ Return

Spec == Init /\ [][Next]_vars

NextParse == FromOpencorpora \/ Parse \/ Return

\* The sources of InitParse, compiled and asked for the parses of their words.
SpecParse == InitParse /\ [][NextParse]_vars

\* The sources of InitParse, compiled and queried with inputs of any case.
SpecInput ==
    InitParse /\ [][FromOpencorpora \/ ParseInput \/ NormalizeInput \/ IsKnown \/ Return]_vars


\* One call of the inflection functions of the public API: <<operation, word>>,
\* <<operation, word, grammemes>> or, for the calls on a parse, the ParsedWord
\* in the place of the word.
CallInflect(d, call, rev) ==
    IF call[1] = "inflect_inizio" THEN inflect_word(d, call[2], NoGrammemes, rev)
    ELSE IF call[1] = "inflect_forms"
    THEN inflect_word(d, call[2], SomeGrammemes(call[3]), rev)
    ELSE IF call[1] = "inflect_parsed"
    THEN inflect_parsed_words(d, call[2], SomeGrammemes(call[3]), rev)
    ELSE IF call[1] = "declension" THEN declension_word(d, call[2], rev)
    ELSE declension_parsed_word(d, call[2], rev)

\* The calls a caller can make: on the keys of the FST and on the words "в" +
\* key, which are no keys; the calls on a parse with a ParsedWord that parse
\* returned, or with the word of one replaced by such a word.
InflectCalls(d) ==
    LET words == (DOMAIN d.fst) \cup {<<1074>> \o w : w \in DOMAIN d.fst}
        parsed == UNION {{parse_word(d, w).value[n] :
                            n \in 1..Len(parse_word(d, w).value)} : w \in DOMAIN d.fst}
        parses == parsed \cup {[p EXCEPT !.word = <<1074>> \o p.word] : p \in parsed}
    IN  {<<"inflect_inizio", w>> : w \in words}
        \cup {<<"inflect_forms", w, g>> : w \in words, g \in GrammemSets}
        \cup {<<"inflect_parsed", p, g>> : p \in parses, g \in GrammemSets}
        \cup {<<"declension", w>> : w \in words}
        \cup {<<"declension_parsed", p>> : p \in parses}

\* A source of one lemma for a caller that makes up to MaxCalls calls one
\* after another: query is the list of the calls made, result the list of what
\* they returned.
InitFuture ==
    /\ lemmata \in {<<l>> : l \in ShortLemmasOf(1)}
    /\ links = <<>>
    /\ pc = "source"
    /\ link_connotation = EmptyMap
    /\ dict = NoDict
    /\ err = ""
    /\ query = <<>>
    /\ result = <<>>

InflectCallAndClear ==
    /\ pc = "ready"
    /\ Len(query) < MaxCalls
    /\ \E call \in InflectCalls(dict) : \E rev \in BOOLEAN :
         LET r == CallInflect(dict, call, rev)
         IN  /\ query' = Append(query, call)
             /\ result' = Append(result, r)
             /\ err' = r.err
             /\ dict' = IF r.err = "" THEN dict ELSE [dict EXCEPT !.word_parses = <<>>]
    /\ UNCHANGED <<lemmata, links, pc, link_connotation>>

\* The next call of the caller: every function takes &self, computes its
\* result from the tables and returns it; an Err is returned like any value.
InflectCall ==
    /\ pc = "ready"
    /\ Len(query) < MaxCalls
    /\ \E call \in InflectCalls(dict) : \E rev \in BOOLEAN :
         LET r == CallInflect(dict, call, rev)
         IN  /\ query' = Append(query, call)
             /\ result' = Append(result, r)
             /\ err' = r.err
    /\ UNCHANGED <<lemmata, links, pc, link_connotation, dict>>

\* The inflection calls of one caller, one after another, known words and
\* unknown ones.
SpecFuture == InitFuture /\ [][FromOpencorpora \/ InflectCall]_vars

\* longest_common_substring, VangovanieRes::sort and the loop of
\* normalized_word over the candidates, each alone on the inputs of InitLcs.
SpecLcs == InitLcs /\ [][Lcs \/ Sort \/ NormalizeVanga]_vars

\* MorphAnalyzer::parse on the artifacts of the sources with several links,
\* whose clusters the compiler's HashMap yields in any order.
SpecRuns == InitRuns /\ [][FromOpencorpora \/ Parse]_vars

\* The calls of several readers on one analyzer, interleaved.
SpecReaders == InitReaders /\ [][FromOpencorpora \/ Lookup \/ Answer]_vars

\* The compilation of two lemmas and MorphAnalyzer::normalize on their words.
SpecNormalize == InitNormalize /\ [][FromOpencorpora \/ Normalize \/ Return]_vars

\* MorphAnalyzer::parse on any input, over the sources with longer words.
SpecOov == InitVanga /\ [][FromOpencorpora \/ ParseInput]_vars

\* The compilation of the sources that yield paradigms.
SpecVanga == InitVanga /\ [][FromOpencorpora]_vars

\* The compilation of two lemmas and the inflection and declension calls on
\* their words.
SpecInflect ==
    InitNormalize /\ [][FromOpencorpora \/ InflectInizio \/ InflectForms \/ InflectParsed
                          \/ Declension \/ DeclensionParsed \/ Return]_vars
\* The compilation of the sources whose lemmas carry a grammeme of the
\* category Other.
SpecOther == InitOther /\ [][FromOpencorpora]_vars
\* The compilation of two lemmas and MorphAnalyzer::inflect_forms on their
\* words.
SpecForms == InitNormalize /\ [][FromOpencorpora \/ InflectForms \/ Return]_vars
NextLinks == CollectLemmas \/ FromOpencorpora

\* The sources of InitLinks, collected and compiled.
SpecLinks == InitLinks /\ [][NextLinks]_vars

\* Links::collect_lemmas alone on the link lists of InitLinks.
SpecCollect == InitLinks /\ [][CollectLemmas]_vars

-----------------------------------------------------------------------------
(* The claims about the link resolver (SpecCollect) and the lemma rows     *)
(* (SpecLinks).                                                            *)

\* The ids of the lemmas of the source.
LemmaIds == {lemmata[i].id : i \in 1..Len(lemmata)}

\* The places <<row, column>> of lemmas_rows that hold the lemma id.
RowPlaces(id) ==
    {rc \in UNION {{<<r, c>> : c \in 1..Len(dict.lemmas_rows[r])} :
                     r \in 1..Len(dict.lemmas_rows)} :
        dict.lemmas_rows[rc[1]][rc[2]] = id}

\* C2: in every compiled artifact the lemma rows partition the lemma ids of
\* the source: every lemma id is at exactly one place of lemmas_rows (not in
\* two rows, not twice in one row), and the key of every cluster is in the
\* row of its cluster.
C2_RowsPartitionLemmaIds ==
    pc = "ready" =>
        /\ \A id \in LemmaIds : Cardinality(RowPlaces(id)) = 1
        /\ \A k \in DOMAIN link_connotation :
              \E r \in 1..Len(dict.lemmas_rows) :
                 dict.lemmas_rows[r] = LemmaRow(k, link_connotation[k])

\* The links that are left when the excluded types are removed.
WithoutExcluded(ls) == SelectSeq(ls, LAMBDA l : l.type_id \notin EXCLUDED_LINKS)

\* C8: collect_lemmas drops the excluded link types entirely: the mapping it
\* returns equals the mapping computed from the same list after every link of
\* an excluded type is removed.
C8_ExcludedLinksDropped ==
    pc = "collected" => link_connotation = collect_lemmas(WithoutExcluded(links))

\* v is a variant of k in the mapping.
IsVariant(k, v) == k \in DOMAIN link_connotation /\ SeqContains(link_connotation[k], v)

\* The links whose `to` is the `from` of the link l.
OuterLinks(l) == {j \in 1..Len(links) : links[j].variant = l.lemma_id}

\* The link l is resolved through an outer link.
IsDoubleHop(l) == l.type_id \in DOUBLE_FROM /\ OuterLinks(l) # {}

-----------------------------------------------------------------------------
(* The claims about the compiled tables (Spec).                            *)

\* The clusters of the source: those of link_connotation, then the lost lemmas.
SourceClusters ==
    Clusters(LemmataMap(lemmata), link_connotation, SetToSeq(DOMAIN link_connotation))

\* Everything the source lemmas emit, as ParseIntermediate.
SourceEmitted == AllEmitted(LemmataMap(lemmata), SourceClusters, 1)

\* The surface forms of the source, lowercased.
SurfaceForms == {SourceEmitted[i].word : i \in 1..Len(SourceEmitted)}

\* The sorted list of the parses emitted for the occurrences of w itself.
OwnParses(w) == KeyParses(SourceEmitted, w, dict.tags, dict.lemmas, dict.lemmas_rows)

\* C1: in every compiled artifact the FST maps every surface form w of the
\* source to a value v such that word_parses[v] is exactly the sorted list of
\* the parses emitted for w's own occurrences in the source lemmas, also when
\* w is the spelling with 'е' of another key that contains 'ё'.
C1_FstValueIsOwnParseList ==
    pc = "ready" =>
        \A w \in SurfaceForms :
            /\ w \in DOMAIN dict.fst
            /\ InBound(dict.word_parses, dict.fst[w])
            /\ get_parse(dict, dict.fst[w]) = OwnParses(w)

StrictlyIncreasing(keys) ==
    \A i \in 1..(Len(keys) - 1) : CmpSeq(keys[i], keys[i + 1]) < 0

\* C3: in every compiled artifact each of the tables tags, lemmas,
\* lemmas_rows and word_parses is strictly increasing: sorted, and no two
\* entries equal.
C3_TablesStrictlyIncreasing ==
    pc = "ready" =>
        /\ StrictlyIncreasing(dict.tags)
        /\ StrictlyIncreasing(dict.lemmas)
        /\ StrictlyIncreasing(dict.lemmas_rows)
        /\ StrictlyIncreasing([i \in 1..Len(dict.word_parses) |->
                                 ParsesKey(dict.word_parses[i])])

\* C4: in every compiled artifact, for every FST key k that contains 'ё', the
\* key with every 'ё' replaced by 'е' is an FST key too and has the value of k.
C4_YoKeyHasYeTwin ==
    pc = "ready" =>
        \A k \in DOMAIN dict.fst :
            ContainsYo(k) =>
                /\ ReplaceYo(k) \in DOMAIN dict.fst
                /\ dict.fst[ReplaceYo(k)] = dict.fst[k]

-----------------------------------------------------------------------------
(* The claims about the lookup engine (Spec).                              *)

Answered(operation) == pc = "answered" /\ query[1] = operation

\* The parses of the queried word, as the dictionary holds them.
QueryParses == get_parse(dict, dict.fst[query[2]])

\* All parses of the dictionary.
AllParses ==
    UNION {SeqToSet(dict.word_parses[i]) : i \in 1..Len(dict.word_parses)}

\* C5: for every known word w and every parse p of w that is not normal,
\* normalize(w) succeeds and holds an entry built from a normal parse whose
\* lemma string is the normal form of p and whose lemma id is in the lemma row
\* of p; and every entry of normalize(w) is built from a normal parse whose
\* lemma id is in the lemma row of some parse of w.
C5_NormalizeFollowsNormalForm ==
    Answered("normalize") =>
        /\ \A n \in 1..Len(QueryParses) :
              LET p == QueryParses[n]
              IN  ~is_normal(p.form) =>
                    /\ err = ""
                    /\ \E q \in AllParses :
                          /\ is_normal(q.form)
                          /\ get_lemmas(dict, q.normal_form) = get_lemmas(dict, p.normal_form)
                          /\ SeqContains(get_row_id(dict, p.lemma_row_id), FormId(q.form))
                          /\ SeqContains(result, try_into_normalized(dict, q))
        /\ err = "" =>
              \A e \in SeqToSet(result) :
                 \E q \in AllParses :
                    /\ is_normal(q.form)
                    /\ try_into_normalized(dict, q) = e
                    /\ \E n \in 1..Len(QueryParses) :
                          SeqContains(get_row_id(dict, QueryParses[n].lemma_row_id),
                                      FormId(q.form))

\* The surface forms of one lemma, lowercased.
LemmaForms(lemma) ==
    IF lemma.forms = <<>> THEN {to_lowercase(lemma.normal_form.text)}
    ELSE {to_lowercase(lemma.forms[i].text) : i \in 1..Len(lemma.forms)}

\* The surface forms of the lemmas of one cluster.
ClusterForms(c) ==
    UNION {LemmaForms(LemmataMap(lemmata)[id]) : id \in {c.lemma_id} \cup SeqToSet(c.variants)}

\* The normal form of a cluster: the normal-form string of its key lemma.
ClusterNormalForm(c) == LemmataMap(lemmata)[c.lemma_id].normal_form.text

\* The words of the InflectWords of a declension.
DeclensionWords(inflects) ==
    UNION {{inflects[n][m].inflect_form : m \in 1..Len(inflects[n])} : n \in 1..Len(inflects)}

\* C6: for every normal lemma L with normal form s and every surface form f of
\* L and of the variant lemmas of its cluster, f is among the words returned by
\* declension(s), and parse(f) holds a parse whose normal_form is s.
C6_FormsInDeclensionAndParse ==
    \A n \in 1..Len(SourceClusters) :
        LET c == SourceClusters[n]
            s == ClusterNormalForm(c)
        IN  /\ (Answered("declension") /\ query[2] = s) =>
                  /\ err = ""
                  /\ ClusterForms(c) \subseteq DeclensionWords(result)
            /\ (Answered("parse") /\ query[2] \in ClusterForms(c)) =>
                  /\ err = ""
                  /\ \E i \in 1..Len(result) : result[i].normal_form = s

\* The initial form of a lemma: its first surface form, lowercased.
InitialForm(lemma) ==
    IF lemma.forms = <<>> THEN to_lowercase(lemma.normal_form.text)
    ELSE to_lowercase(lemma.forms[1].text)

\* The lemmas of the source that have the surface form f.
LemmasWithForm(f) == {i \in 1..Len(lemmata) : f \in LemmaForms(lemmata[i])}

\* C7: for every lemma L and every surface form f of L, inflect_inizio(f)
\* returns the initial form of L, and every word it returns is a key with a
\* parse that is WordNormal or WordInizio of a lemma that has the form f.
C7_InflectInizioIsInitialForm ==
    Answered("inflect_inizio") =>
        /\ \A i \in LemmasWithForm(query[2]) :
              /\ err = ""
              /\ \E n \in 1..Len(result) : result[n].inflect_form = InitialForm(lemmata[i])
        /\ err = "" =>
              \A n \in 1..Len(result) :
                 /\ result[n].inflect_form \in DOMAIN dict.fst
                 /\ \E q \in SeqToSet(get_parse(dict, dict.fst[result[n].inflect_form])) :
                       /\ is_normal(q.form) \/ is_inizio(q.form)
                       /\ \E i \in LemmasWithForm(query[2]) : lemmata[i].id = FormId(q.form)

\* C10 as stated: for every known word the i-th ParsedWord of parse(word) is
\* built from the i-th parse of word_parses[fst[word]], the parses being
\* sorted by (form, tag index, lemma index).
C10_ParseInParseOrder ==
    Answered("parse") => (err = "" /\ result = ParsedOf(dict, query[2]))

\* How many times x is in vec.
Count(vec, x) == Cardinality({i \in 1..Len(vec) : vec[i] = x})

\* The order of (tags, normal_form): the grammemes first, then the lemma string.
TagsLemmaKey(pw) == Enc(pw.tags) \o Enc(pw.normal_form)

\* C10 as amended: for every known word parse(word) holds exactly the
\* ParsedWords built from the parses of word_parses[fst[word]], each as many
\* times as it is built, in the non-decreasing order of (tags, normal_form).
C10_ParseInParsedWordOrder ==
    Answered("parse") =>
        /\ err = ""
        /\ Len(result) = Len(QueryParses)
        /\ \A i \in 1..Len(QueryParses) :
              Count(result, try_into_parse(dict, query[2], QueryParses[i]))
                = Count(ParsedOf(dict, query[2]),
                        try_into_parse(dict, query[2], QueryParses[i]))
        /\ \A i \in 1..(Len(result) - 1) :
              CmpSeq(TagsLemmaKey(result[i]), TagsLemmaKey(result[i + 1])) <= 0

\* parse answered a word with two parses whose Parse order is not the order
\* of their tags.
C10_Witness ==
    /\ Answered("parse")
    /\ err = ""
    /\ \E i, j \in 1..Len(QueryParses) :
          /\ i < j
          /\ CmpSeq(get_tag(dict, QueryParses[i].tag), get_tag(dict, QueryParses[j].tag)) > 0

-----------------------------------------------------------------------------
(* The claims about the calls on any input (SpecInput).                    *)

\* C11: the queries lowercase their input before the FST lookup: parse(W),
\* normalize(W) and is_known(W) return what they return for the lowercased W.
C11_QueriesLowercaseInput ==
    /\ Answered("parse_input") =>
          [err |-> err, value |-> result]
            = MorphAnalyzer_parse(dict, to_lowercase(query[2]))
    /\ Answered("normalize_input") =>
          [err |-> err, value |-> result]
            = MorphAnalyzer_normalize(dict, to_lowercase(query[2]))
    /\ Answered("is_known") =>
          result = <<MorphAnalyzer_is_known(dict, to_lowercase(query[2]))>>

-----------------------------------------------------------------------------
(* The claims about longest_common_substring (SpecLcs).                    *)

\* s occurs in every string of data.
IsCommonSubstring(s, data) == \A i \in 1..Len(data) : StrContains(data[i], s)

\* The contiguous substrings of w, the empty one included.
Substrings(w) == {SubSeq(w, i, j) : i \in 1..(Len(w) + 1), j \in 0..Len(w)}

\* C12: longest_common_substring(data) is a contiguous substring that occurs
\* in every string of data, and no substring common to all of them is longer.
C12_LongestCommonSubstring ==
    Answered("lcs") =>
        /\ IsCommonSubstring(result, query[2])
        /\ Len(query[2]) > 0 =>
              \A s \in Substrings(query[2][1]) :
                 IsCommonSubstring(s, query[2]) => Len(s) <= Len(result)


-----------------------------------------------------------------------------
(* The claims about the paradigms (SpecVanga).                             *)

\* The item list a Vanga of the artifact stands for, its tag ids resolved in
\* the table of tags.
VangaSignature(v) ==
    [j \in 1..Len(v.postfix) |->
        [postfix |-> v.postfix[j].postfix, form |-> v.postfix[j].form,
         tag |-> [t \in 1..Len(v.postfix[j].tag) |-> dict.tags[v.postfix[j].tag[t] + 1]]]]

\* The processed clusters whose list of postfix items is x.
ClustersWithItems(x) ==
    {c \in 1..Len(SourceClusters) :
        collect_vangas(LemmataMap(lemmata), SourceClusters[c].lemma_id,
                       SourceClusters[c].variants).item = x}

\* C13: in every compiled artifact every Vanga of paradigms has popularity >= 3,
\* its popularity is the number of processed clusters whose list of postfix
\* items equals the Vanga's signature, every postfix has 1 to 5 characters, and
\* paradigms is in non-increasing order of popularity.
C13_ParadigmsProductiveAndOrdered ==
    pc = "ready" =>
        \A i \in 1..Len(dict.paradigms) :
            LET v == dict.paradigms[i]
            IN  /\ v.popularity >= 3
                /\ v.popularity = Cardinality(ClustersWithItems(VangaSignature(v)))
                /\ \A j \in 1..Len(v.postfix) :
                     Len(v.postfix[j].postfix) >= 1 /\ Len(v.postfix[j].postfix) <= 5
                /\ i < Len(dict.paradigms) => v.popularity >= dict.paradigms[i + 1].popularity

\* An artifact with two paradigms of different popularity.
C13_Witness ==
    /\ pc = "ready"
    /\ Len(dict.paradigms) >= 2
    /\ dict.paradigms[1].popularity > dict.paradigms[2].popularity

-----------------------------------------------------------------------------
(* The claims about the words out of the vocabulary (SpecOov).             *)

\* The known prefixes p such that word is p followed by an FST key of at least
\* three characters.
KnownPrefixesOf(word) ==
    {pref \in KNOWN_PREFIX :
        /\ StartsWith(word, pref)
        /\ Len(StripPrefix(word, pref)) >= 3
        /\ StripPrefix(word, pref) \in DOMAIN dict.fst}

\* C14: for every word that is not an FST key and is p + stem, p a known
\* prefix and stem an FST key of at least 3 characters, parse(word) returns at
\* least one ParsedWord whose method is Vangovanie(KnownPrefix(p)).
C14_KnownPrefixCandidate ==
    (Answered("parse_input") /\ query[2] \notin DOMAIN dict.fst) =>
        \A pref \in KnownPrefixesOf(query[2]) :
            /\ err = ""
            /\ \E i \in 1..Len(result) :
                 result[i].method = <<"Vangovanie", "KnownPrefix", pref>>

-----------------------------------------------------------------------------
(* The claims about repeated and concurrent queries.                       *)

\* C16: normalize is idempotent on the words of the dictionary: normalizing
\* the word of any entry of normalize(w) returns the same list as normalize(w).
C16_NormalizeIdempotent ==
    (Answered("normalize") /\ err = "") =>
        \A i \in 1..Len(result) :
            /\ result[i].normal_word \in DOMAIN dict.fst
            /\ normalized_word(dict, result[i].normal_word) = [err |-> "", value |-> result]

\* C16, amended: for every entry e of normalize(w) whose word is a word of the
\* dictionary, normalizing the word of e succeeds and returns a list that
\* contains e.
C16_NormalizeKeepsEntry ==
    (Answered("normalize") /\ err = "") =>
        \A i \in 1..Len(result) :
            result[i].normal_word \in DOMAIN dict.fst =>
                /\ normalized_word(dict, result[i].normal_word).err = ""
                /\ SeqContains(normalized_word(dict, result[i].normal_word).value, result[i])

\* normalize(w) of a form w that is not its own normal form, with an entry
\* whose word normalizes to a different list.
C16_Witness ==
    /\ Answered("normalize")
    /\ err = ""
    /\ \E i \in 1..Len(result) :
          /\ result[i].normal_word # query[2]
          /\ result[i].normal_word \in DOMAIN dict.fst
          /\ normalized_word(dict, result[i].normal_word).value # result

ReaderAnswered(r) == query[r][4] = "answered"

\* C18: whatever way the calls of several readers of one analyzer interleave,
\* no call changes fst, word_parses, tags, lemmas, lemmas_rows or paradigms,
\* and every call returns what it returns when it runs alone.
C18_ReadersDoNotInterfere ==
    /\ [](pc = "ready" =>
            \A r \in 1..MaxReaders :
               ReaderAnswered(r) =>
                  \E rev \in BOOLEAN :
                     result[r] = Call(dict, query[r][1], query[r][2], rev))
    /\ [][pc = "ready" => dict' = dict]_vars

\* One reader has the answer of a call that ran while another reader was
\* inside a different call.
C18_Witness ==
    /\ pc = "ready"
    /\ ReaderAnswered(1)
    /\ query[2][4] = "looked"
    /\ query[1][1] # query[2][1]
    /\ result[1].value # <<>>

-----------------------------------------------------------------------------
(* The claims about the lemmas without links and the form labels (Spec).   *)

\* The lemmas of the source that are in no cluster of link_connotation.
LostLemmas == {i \in 1..Len(lemmata) : lemmata[i].id \notin Clustered(link_connotation)}

\* C19: no lemma is lost by the compilation: every lemma of the source that
\* is in no resolved cluster has the row [id], its normal form is in lemmas,
\* and each of its surface forms is an FST key whose parse list holds a parse
\* of that lemma with the lemma's own normal form; and every lemma id of the
\* source is in at least one row.
C19_NoLemmaLost ==
    pc = "ready" =>
        /\ \A i \in LostLemmas :
              /\ SeqContains(dict.lemmas_rows, <<lemmata[i].id>>)
              /\ SeqContains(dict.lemmas, lemmata[i].normal_form.text)
              /\ \A w \in LemmaForms(lemmata[i]) :
                    /\ w \in DOMAIN dict.fst
                    /\ \E p \in SeqToSet(get_parse(dict, dict.fst[w])) :
                          /\ FormId(p.form) = lemmata[i].id
                          /\ get_lemmas(dict, p.normal_form) = lemmata[i].normal_form.text
        /\ \A id \in LemmaIds : RowPlaces(id) # {}

\* The lemmas of a cluster in the order they are processed, and the number of
\* parses each emits: one for each <f>, one for a lemma without <f>.
ClusterLemmaIds(c) == <<c.lemma_id>> \o c.variants
Emits(id) == IF LemmataMap(lemmata)[id].forms = <<>> THEN 1
             ELSE Len(LemmataMap(lemmata)[id].forms)

RECURSIVE EmittedBefore(_, _)
EmittedBefore(c, k) ==
    IF k <= 1 THEN 0
    ELSE EmittedBefore(c, k - 1) + Emits(ClusterLemmaIds(c)[k - 1])

\* The parses emitted for the k-th lemma of the cluster c.
LemmaParses(c, k) ==
    SubSeq(ClusterEmitted(LemmataMap(lemmata), c.lemma_id, c.variants),
           EmittedBefore(c, k) + 1,
           EmittedBefore(c, k) + Emits(ClusterLemmaIds(c)[k]))

\* The labels of the parses of the k-th lemma of c: the first parse has the
\* kind `first`, the others are WordDifferent, all with the lemma's id, the
\* lemma's surface forms in their order, and the normal form of the cluster.
LabelledAs(c, k, first) ==
    LET id == ClusterLemmaIds(c)[k]
        lemma == LemmataMap(lemmata)[id]
        parses == LemmaParses(c, k)
    IN  /\ Len(parses) = Emits(id)
        /\ \A j \in 1..Len(parses) :
              /\ parses[j].form = FormWord(IF j = 1 THEN first ELSE FDifferent, id)
              /\ parses[j].normal_form = ClusterNormalForm(c)
              /\ parses[j].word = (IF lemma.forms = <<>>
                                   THEN to_lowercase(lemma.normal_form.text)
                                   ELSE to_lowercase(lemma.forms[j].text))

\* C20: per cluster, of the parses emitted for the normal lemma the first
\* surface form is WordNormal(normalId) and the others WordDifferent(normalId);
\* of those of a variant lemma the first is WordInizio(variantId) and the others
\* WordDifferent(variantId), all with the normal form of the cluster's normal
\* lemma; and a lemma without other forms yields exactly one parse, WordNormal,
\* under its normal form.
C20_FormLabels ==
    pc = "ready" =>
        \A n \in 1..Len(SourceClusters) :
            LET c == SourceClusters[n]
            IN  /\ LabelledAs(c, 1, FNormal)
                /\ \A k \in 2..Len(ClusterLemmaIds(c)) : LabelledAs(c, k, FInizio)
                /\ \A k \in 1..Len(ClusterLemmaIds(c)) :
                      LemmataMap(lemmata)[ClusterLemmaIds(c)[k]].forms = <<>> =>
                          /\ Len(LemmaParses(c, k)) = 1
                          /\ is_normal(LemmaParses(c, k)[1].form)

\* C20, amended: a lemma without other forms yields exactly one parse in each
\* cluster it is in, WordNormal when it is the normal lemma of the cluster and
\* WordInizio when it is a variant.
C20_FormLabelsByRole ==
    pc = "ready" =>
        \A n \in 1..Len(SourceClusters) :
            LET c == SourceClusters[n]
            IN  /\ LabelledAs(c, 1, FNormal)
                /\ \A k \in 2..Len(ClusterLemmaIds(c)) : LabelledAs(c, k, FInizio)
                /\ \A k \in 1..Len(ClusterLemmaIds(c)) :
                      LemmataMap(lemmata)[ClusterLemmaIds(c)[k]].forms = <<>> =>
                          /\ Len(LemmaParses(c, k)) = 1
                          /\ IF k = 1 THEN is_normal(LemmaParses(c, k)[1].form)
                             ELSE is_inizio(LemmaParses(c, k)[1].form)

\* An artifact of a cluster whose normal lemma has no other forms and whose
\* variant lemma has two forms.
C20_Witness ==
    /\ pc = "ready"
    /\ \E n \in 1..Len(SourceClusters) :
          LET c == SourceClusters[n]
          IN  /\ Len(c.variants) = 1
              /\ LemmataMap(lemmata)[c.lemma_id].forms = <<>>
              /\ Len(LemmataMap(lemmata)[c.variants[1]].forms) = 2
              /\ is_inizio(LemmaParses(c, 2)[1].form)

-----------------------------------------------------------------------------
(* The claims about the indices of the artifact (SpecNormalize).           *)

\* The parse p of the list vec_parses is what the source emitted as pi: the
\* entries of the tables at the indices of p are the sorted tag, the normal
\* form and the lemma row of pi, and the list is that of the word of pi.
Denotes(vec_parses, p, pi) ==
    /\ vec_parses = OwnParses(pi.word)
    /\ p.form = pi.form
    /\ get_tag(dict, p.tag) = SortTag(pi.tag)
    /\ get_lemmas(dict, p.normal_form) = pi.normal_form
    /\ get_row_id(dict, p.lemma_row_id) = pi.opcorp_lemma

\* C21: in every compiled artifact every Parse of every list of word_parses
\* has tag < |tags|, normal_form < |lemmas| and lemma_row_id < |lemmas_rows|,
\* the entries at these indices are the sorted tag, the normal form string and
\* the lemma row the source gives the parse, every FST value is an index of
\* word_parses, and no query on a word of the artifact fails with OutOfBound.
C21_IndicesInBound ==
    pc \in {"ready", "answered"} =>
        /\ \A i \in 1..Len(dict.word_parses) : \A j \in 1..Len(dict.word_parses[i]) :
              LET p == dict.word_parses[i][j]
              IN  /\ ~ParseOutOfBound(dict, p)
                  /\ \E k \in 1..Len(SourceEmitted) :
                        Denotes(dict.word_parses[i], p, SourceEmitted[k])
        /\ \A w \in DOMAIN dict.fst :
              /\ InBound(dict.word_parses, dict.fst[w])
              /\ \A operation \in {"parse", "normalize", "inflect_inizio", "declension"} :
                 \A rev \in BOOLEAN :
                    Call(dict, operation, w, rev).err # "OutOfBound"
        /\ err # "OutOfBound"

\* C21 witness: a query was answered on an artifact one of whose parses has
\* the second tag, the second lemma string and the second lemma row.
C21_Witness ==
    /\ pc = "answered"
    /\ err = ""
    /\ result # <<>>
    /\ \E p \in AllParses : p.tag = 1 /\ p.normal_form = 1 /\ p.lemma_row_id = 1

-----------------------------------------------------------------------------
(* The claims about inflection and declension (SpecInflect).               *)

\* The parses id_forms and the grammeme filter of collect_stream_hashset
\* retain for the parse of a word, as pairs <<index of the list, parse>>.
Retained(parse, grammemes) ==
    LET forms == id_forms(dict, get_row_id(dict, parse.lemma_row_id),
                          SomeWordId(FormId(parse.form)), grammemes)
    IN  SelectSeq(forms, LAMBDA f :
            grammemes.some =>
                \A x \in SeqToSet(grammemes.grammemes) :
                    SeqContains(get_tag(dict, f[2].tag), x))

\* The pairs (key, tag) a scan of every key of the FST keeps for the parse.
Scanned(parse, grammemes) ==
    LET kept == Retained(parse, grammemes)
    IN  UNION {{<<key, get_tag(dict, kept[n][2].tag)>> :
                   n \in {m \in 1..Len(kept) : kept[m][1] = dict.fst[key]}} :
                 key \in DOMAIN dict.fst}

\* The pairs (key, tag) the stream over the prefix ranges yields for the parse.
Streamed(word, parse, grammemes) ==
    LET r == inflect_parse(dict, word, parse, grammemes, <<>>, FALSE)
    IN  {<<r.value[n].inflect_form, r.value[n].tags>> : n \in 1..Len(r.value)}

\* The parses of a word that inflect_parse sends through the FST stream.
StreamedParses(word, grammemes) ==
    {p \in SeqToSet(get_parse(dict, dict.fst[word])) :
        grammemes.some \/ ~(is_inizio(p.form) \/ is_normal(p.form))}

\* C22: for every known word, every parse of it and every optional grammeme
\* set, the (key, tag) pairs streamed over the prefix ranges are the pairs a
\* scan of every FST key keeps, the keys whose value is the index of a
\* retained parse list.
C22_RangeStreamLosesNoForm ==
    pc \in {"ready", "answered"} =>
        \A word \in DOMAIN dict.fst :
        \A grammemes \in {NoGrammemes} \cup {SomeGrammemes(g) : g \in GrammemSets} :
        \A p \in StreamedParses(word, grammemes) :
            Streamed(word, p, grammemes) = Scanned(p, grammemes)

-----------------------------------------------------------------------------
(* The claims about the tags of the paradigms (SpecOther).                 *)

\* C23: compilation does not fail with BinaryTagVanga: the tag of every item of
\* a kept paradigm, its grammemes of the category Other dropped, is found in
\* the table of tags, so that in the artifact every tag index of a Vanga item
\* is < |tags| and the item with its tags resolved is the item list of a
\* paradigm counted for the source, also when the lemmas of a paradigm shared
\* by 3 lemmas or more carry grammemes of the category Other.
C23_VangaTagsFound ==
    /\ pc = "failed" => err # "BinaryTagVanga"
    /\ pc = "ready" =>
          \A i \in 1..Len(dict.paradigms) :
              LET v == dict.paradigms[i]
              IN  /\ \A j \in 1..Len(v.postfix) : \A t \in 1..Len(v.postfix[j].tag) :
                        InBound(dict.tags, v.postfix[j].tag[t])
                  /\ VangaSignature(v)
                        \in Productive(Stems(LemmataMap(lemmata), SourceClusters))

-----------------------------------------------------------------------------
(* The claims about the order and the content of the answers (SpecInflect). *)

\* C24: for a fixed artifact and a fixed known word, inflect_inizio,
\* inflect_forms and declension (and declension_get, an element of the answer
\* of declension) answer in the same order on every call and in every run:
\* the answer is the one the call gives for every order in which the hash set
\* of the lemma rows and the hash map of the ranges are walked.
C24_SameOrderOnEveryCall ==
    /\ Answered("inflect_inizio") =>
          \A rev \in BOOLEAN :
              inflect_word(dict, query[2], NoGrammemes, rev) = [err |-> err, value |-> result]
    /\ Answered("inflect_forms") =>
          \A rev \in BOOLEAN :
              inflect_word(dict, query[2], SomeGrammemes(query[3]), rev)
                = [err |-> err, value |-> result]
    /\ Answered("declension") =>
          \A rev \in BOOLEAN :
              declension_word(dict, query[2], rev) = [err |-> err, value |-> result]

\* C25: every InflectWord that inflect_forms(word, G) returns for a known word
\* has a tag that contains every grammeme of G, its form is an FST key whose
\* parse list has a parse with that tag and that normal form, and the lemma id
\* of that parse is in the lemma row of some parse of word.
C25_InflectFormsAreForms ==
    Answered("inflect_forms") =>
        \A n \in 1..Len(result) :
            /\ \A g \in SeqToSet(query[3]) : SeqContains(result[n].tags, g)
            /\ result[n].inflect_form \in DOMAIN dict.fst
            /\ \E q \in SeqToSet(get_parse(dict, dict.fst[result[n].inflect_form])) :
                  /\ get_tag(dict, q.tag) = result[n].tags
                  /\ get_lemmas(dict, q.normal_form) = result[n].normal_form
                  /\ \E p \in SeqToSet(QueryParses) :
                        SeqContains(get_row_id(dict, p.lemma_row_id), FormId(q.form))

\* inflect_forms answered a case with a form that is not the word asked, while
\* the artifact has a parse of another case and a lemma row the word is not in.
C25_Witness ==
    /\ Answered("inflect_forms")
    /\ err = ""
    /\ query[3] # <<>>
    /\ \E n \in 1..Len(result) : result[n].inflect_form # query[2]
    /\ \E q \in AllParses : ~SeqContains(get_tag(dict, q.tag), query[3][1])
    /\ \E i \in 1..Len(dict.lemmas_rows) :
          \A p \in SeqToSet(QueryParses) : p.lemma_row_id # i - 1

\* C26: on the dictionary path normalize(word) returns one entry per distinct
\* (lemma string, tag set): no two entries of the returned list are equal, also
\* when the word has several normal parses with the same tag and the same
\* lemma string that come from different lemmas.
C26_NormalizeHasNoEqualEntries ==
    Answered("normalize") =>
        \A i, j \in 1..Len(result) : i # j => result[i] # result[j]

\* C27: for every known word and every optional grammeme set the InflectWords
\* that inflect_inizio, inflect_forms and inflect_parsed return hold no two
\* equal entries (same form, tags, normal form and method), also when several
\* parses of the word each give the word itself as its initial form.
C27_InflectHasNoEqualEntries ==
    (Answered("inflect_inizio") \/ Answered("inflect_forms") \/ Answered("inflect_parsed")) =>
        \A i, j \in 1..Len(result) : i # j => result[i] # result[j]

\* The parses of the word of a ParsedWord from which parse builds it.
ProducingParses(pw) ==
    {q \in SeqToSet(get_parse(dict, dict.fst[pw.word])) :
        try_into_parse(dict, pw.word, q) = pw}

\* C28: inflect_parsed(p, G) and declension_parsed(p) work on a parse that
\* produced p: the answer is the one computed from the lemma row and the lemma
\* id of a parse of p.word whose tag and normal form are those of p, also when
\* the word has another parse with the same tag and another normal form.
C28_ParsedCallsUseTheirParse ==
    /\ Answered("inflect_parsed") =>
          \E q \in ProducingParses(query[2]) : \E rev \in BOOLEAN :
              inflect_parse(dict, query[2].word, q, SomeGrammemes(query[3]), <<>>, rev)
                = [err |-> err, value |-> result]
    /\ Answered("declension_parsed") =>
          \E q \in ProducingParses(query[2]) : \E rev \in BOOLEAN :
              declension_ids(dict, query[2].word, get_row_id(dict, q.lemma_row_id), rev)
                = [err |-> err, value |-> result]

-----------------------------------------------------------------------------
(* The claims about the words out of the vocabulary in normalize and in    *)
(* the inflection calls (SpecLcs, SpecFuture).                             *)

CallWord(call) ==
    IF call[1] \in {"inflect_parsed", "declension_parsed"} THEN call[2].word ELSE call[2]

\* C30: inflect_inizio, inflect_forms, inflect_parsed, declension and
\* declension_parsed on a word that is not an FST key return the FutureRelease
\* error and nothing else (no result of the predictor, no partial result), and
\* a failed call leaves the analyzer as it was: it changes no table, and every
\* call, before or after a failed one, returned what the tables give for it.
C30_FutureReleaseLeavesAnalyzerUsable ==
    /\ [](pc = "ready" =>
            \A i \in 1..Len(query) :
               /\ CallWord(query[i]) \notin DOMAIN dict.fst =>
                     result[i] = [err |-> "FutureRelease", value |-> <<>>]
               /\ \E rev \in BOOLEAN : result[i] = CallInflect(dict, query[i], rev))
    /\ [][pc = "ready" => dict' = dict]_vars

\* A call on an unknown word failed and the next call, on a known word,
\* returned forms.
C30_Witness ==
    /\ pc = "ready"
    /\ Len(query) = 2
    /\ CallWord(query[1]) \notin DOMAIN dict.fst
    /\ result[1].err = "FutureRelease"
    /\ CallWord(query[2]) \in DOMAIN dict.fst
    /\ result[2].err = ""
    /\ result[2].value # <<>>

====
